---- MODULE Spec2Model ----
(***************************************************************************)
(* A model of agent-dsl: the block parser (src/agent_dsl/parser.py), the   *)
(* execution engine (src/agent_dsl/runtime.py) and the web session layer   *)
(* that drives the engine across requests (src/agent_dsl/webapp.py).       *)
(*                                                                         *)
(* Two state machines share the module.  SpecParse runs parse() on a       *)
(* bounded set of sources, one step per loop iteration of the code.  Spec  *)
(* runs an Engine on a fixed set of programs, one step per executed        *)
(* action, driven by a host (the CLI's blocking ask or the web session's   *)
(* step()).                                                                *)
(***************************************************************************)
EXTENDS Integers, Sequences, FiniteSets, TLC

VARIABLES
    \* ---- parser (parse and its nested parse_block_actions) ----
    lines,      \* the source, one string per line
    i,          \* the shared line index (nonlocal i), 1-based here
    ppc,        \* where parse is: "main", "flow_loop", "state_ret", "block", "done", "error", "off"
    pstack,     \* the activations of parse_block_actions, innermost last
    ret,        \* the list the last parse_block_actions call returned
    prog,       \* Program.flows: insertion-ordered <<[name, states]>>
    flow_name,  \* the name of the flow being filled
    st_name,    \* the name of the state whose block is being parsed
    perr,       \* the message of the ValueError raised, "" when none
    \* ---- engine (Engine and the generator of run_iter) ----
    flow,           \* Engine.flow.states: insertion-ordered <<[name, actions]>>
    state_name,     \* Engine.state_name
    ctx,            \* Engine.ctx: a function from the bound variables to strings
    visits,         \* Engine._visits (an absent key reads as 0)
    last_asked_var, \* Engine._last_asked_var
    use_llm,        \* Engine.use_llm and Engine.llm_client is set
    epc,            \* where run_iter is: "off", "loop", "exec", "flush", "classify",
                    \* "fallback", "transition", "halted", "suspended", "error"
    guard,          \* run_iter's local guard
    estack,         \* the activations of _exec_actions, innermost last
    eret,           \* the value the last _exec_actions activation returned
    buffer,         \* run_iter's local buffer
    target,         \* run_iter's local target
    err,            \* the exception that ended run_iter, "" when none
    \* ---- host (cli.run_cmd or webapp.SessionState) ----
    host,           \* "cli" or "web"
    hpc,            \* "idle" between calls, "running" inside run_cmd / step
    steps,          \* how many times the host has invoked run_iter
    inputs,         \* the inputs list of the current ask_fn (web)
    called,         \* called["n"] of the current ask_fn (web)
    pending,        \* the NeedMoreInput in flight: <<var, prompt>> or <<>>
    msgs,           \* step()'s local msgs
    chat,           \* SessionState.chat: <<[role, text]>>
    await_var,      \* SessionState.await_var
    out,            \* every line handed to the host's sink, in order of delivery
    \* ---- history (what the run did, for the properties) ----
    produced,       \* every reply / notice line in order of production
    log,            \* the events of the current state visit
    \* ---- external store (the file save and load address) ----
    store,          \* the content of the file: [kind, data]
    \* ---- the expression evaluator called on its own ----
    tree,           \* the tree ast.parse has returned
    evaluated,      \* what the evaluation gave: [kind, r], Unset before
    \* ---- parse called a second time ----
    parsed,         \* the text and the Program of an earlier call of parse
    \* ---- history: the entries into the states ----
    entered,        \* per state, how often the engine has entered it
    \* ---- history: the runaway error ----
    ran_away,       \* the engine has raised the runaway RuntimeError
    \* ---- history: the invocations of run_iter ----
    invoked_in      \* where the engine stood when run_iter was last invoked

pvars == <<lines, i, ppc, pstack, ret, prog, flow_name, st_name, perr>>

evars == <<flow, state_name, ctx, visits, last_asked_var, use_llm, epc, guard,
           estack, eret, buffer, target, err>>

hvars == <<host, hpc, steps, inputs, called, pending, msgs, chat, await_var, out>>

gvars == <<produced, log>>

vars == <<pvars, evars, hvars, gvars, store, tree, evaluated, parsed, entered, ran_away,
          invoked_in>>

\* parse has not been called before
NotYet == [kind |-> "none", lines |-> <<>>, prog |-> <<>>]

\* no evaluation has been made
Unset == [kind |-> "unset", r |-> ""]

----------------------------------------------------------------------------
(* Bounds *)

MaxBody == 4
MaxTop == 3

----------------------------------------------------------------------------
(* Lines and the string tests the parser applies to them *)

\* lines[i].strip(): the model's lines carry indentation only where listed.
Strip(l) ==
    CASE l = "  }" -> "}"
      [] l = "   " -> ""
      [] l = "  reply \"x\"" -> "reply \"x\""
      [] OTHER -> l

\* not raw or raw.startswith("#")
IsSkip(raw) == raw \in {"", "# note"}

\* raw.startswith("}")
StartsWithBrace(raw) == raw \in {"}", "} elif c {", "} elif c", "} else {", "} else", "} junk"}

\* raw.startswith("} elif")
StartsWithBraceElif(raw) == raw \in {"} elif c {", "} elif c"}

\* raw.startswith("} else")
StartsWithBraceElse(raw) == raw \in {"} else {", "} else"}

\* raw.startswith("state ")
StartsWithState(raw) == raw \in {"state a", "state b"}

\* raw.startswith("flow ")
StartsWithFlow(raw) == raw \in {"flow main", "flow f2"}

\* raw.startswith("else")
StartsWithElse(raw) == raw \in {"else {", "else", "else x"}

\* _IF_HEAD.match(raw)
IsIfHead(raw) == raw \in {"if c {", "if d {"}

\* _ELIF_HEAD.match(look)
IsElifHead(raw) == raw \in {"elif c {"}

\* part.endswith("{") for part = look[len("} elif"):].strip()
ElifPartEndsWithBrace(raw) == raw = "} elif c {"

\* the condition text of an if / elif head
CondOf(raw) ==
    CASE raw = "if d {" -> "d"
      [] OTHER -> "c"

\* raw.split(" ", 1)[1].strip() of a flow or state line
NameOf(raw) ==
    CASE raw = "state a" -> "a"
      [] raw = "state b" -> "b"
      [] raw = "flow main" -> "main"
      [] raw = "flow f2" -> "f2"
      [] OTHER -> raw

\* the ordinary statements of the model's sources
IsStatement(raw) == raw \in {"reply \"x\"", "reply \"y\"", "goto b"}

\* the Action an ordinary statement line parses to
ActionOf(raw) ==
    CASE raw = "reply \"x\"" -> [kind |-> "reply", text |-> "x"]
      [] raw = "reply \"y\"" -> [kind |-> "reply", text |-> "y"]
      [] raw = "goto b" -> [kind |-> "goto", target |-> "b"]
      [] OTHER -> [kind |-> "none"]

----------------------------------------------------------------------------
(* The sources parse is run on *)

BoundedSeq(S, n) == UNION {[1..k -> S] : k \in 0..n}

Header == <<"flow main", "state a">>

BodyAlphabet == {"reply \"x\"", "if c {", "}", "} else {", "} elif c {", "state b", ""}

TopAlphabet == {"flow main", "flow f2", "state a", "junk", "# note", "reply \"x\""}

Corpus ==
    { <<"flow main", "state a", "if c {", "if d {", "reply \"x\"", "}", "} else {", "reply \"y\"", "}">>,
      <<"flow main", "state a", "if c {", "if d {", "reply \"x\"", "}", "}", "else {", "reply \"y\"", "}">>,
      <<"flow main", "state a", "if c {", "reply \"x\"", "}", "elif c {", "reply \"y\"", "}", "else", "{", "goto b", "}">>,
      <<"flow main", "state a", "if c {", "}", "else", "reply \"x\"">>,
      <<"flow main", "state a", "if c {", "}", "else x">>,
      <<"flow main", "state a", "if c {", "} elif c">>,
      <<"flow main", "state a", "if c {", "} junk">>,
      <<"flow main", "state a", "if c {", "} elif c {", "} junk">>,
      <<"flow main", "state a", "if c {", "} elif c {">>,
      <<"flow main", "state a", "if c {", "} else {">>,
      <<"flow main", "state a", "if c {", "  reply \"x\"", "  }", "   ", "state b", "junk">>,
      <<"flow main", "state a", "reply \"x\"", "state a", "flow main", "state b">> }

Sources ==
    {Header \o b : b \in BoundedSeq(BodyAlphabet, MaxBody)}
        \cup BoundedSeq(TopAlphabet, MaxTop)
        \cup Corpus

----------------------------------------------------------------------------
(* parse: the activations of parse_block_actions *)

n == Len(lines)

Raw == Strip(lines[i])

Top == pstack[Len(pstack)]

SetTop(f) == [pstack EXCEPT ![Len(pstack)] = f]

Pop == SubSeq(pstack, 1, Len(pstack) - 1)

\* a fresh activation: actions = [], at the head of the while loop
NewFrame ==
    [pc |-> "top", actions |-> <<>>, ifline |-> 0,
     acc |-> <<>>, cond |-> "", branches |-> <<>>]

Call(site) == Append(SetTop([Top EXCEPT !.pc = site]), NewFrame)

Raise(msg) ==
    /\ ppc' = "error"
    /\ perr' = msg
    /\ UNCHANGED <<invoked_in, ran_away, entered, parsed, tree, evaluated, store, evars, hvars, gvars, lines, i, pstack, ret, prog, flow_name, st_name>>

InBlock == ppc = "block" /\ Len(pstack) > 0


\* return actions (line 225) to the call site
Return(val) ==
    /\ ret' = val
    /\ pstack' = Pop
    /\ ppc' = IF Len(pstack) = 1 THEN "state_ret" ELSE "block"
    /\ UNCHANGED <<invoked_in, ran_away, entered, parsed, tree, evaluated, store, evars, hvars, gvars, lines, i, prog, flow_name, st_name, perr>>

\* lines 47-51: a blank or comment line is skipped
PBA_Skip ==
    /\ InBlock /\ Top.pc = "top" /\ i <= n
    /\ IsSkip(Raw)
    /\ i' = i + 1
    /\ UNCHANGED <<invoked_in, ran_away, entered, parsed, tree, evaluated, store, evars, hvars, gvars, lines, ppc, pstack, ret, prog, flow_name, st_name, perr>>

\* raw == "}" or raw.startswith("} elif") ... (lines 54-55)
IsTerminator(raw) ==
    \/ raw = "}"
    \/ StartsWithBraceElif(raw)
    \/ StartsWithBraceElse(raw)
    \/ StartsWithState(raw)
    \/ StartsWithFlow(raw)

\* lines 47, 53-56, 225: end of input or a terminator line ends the block
PBA_Break ==
    /\ InBlock /\ Top.pc = "top"
    /\ i > n \/ (i <= n /\ ~IsSkip(Raw) /\ IsTerminator(Raw))
    /\ Return(Top.actions)

\* lines 59-65: an if head opens a chain; its then-block follows
PBA_If ==
    /\ InBlock /\ Top.pc = "top" /\ i <= n
    /\ ~IsSkip(Raw) /\ ~IsTerminator(Raw) /\ IsIfHead(Raw)
    /\ i' = i + 1
    /\ pstack' = SetTop([Top EXCEPT !.pc = "then_loop", !.cond = CondOf(Raw),
                                    !.acc = <<>>, !.branches = <<>>,
                                    !.ifline = i])
    /\ UNCHANGED <<invoked_in, ran_away, entered, parsed, tree, evaluated, store, evars, hvars, gvars, lines, ppc, ret, prog, flow_name, st_name, perr>>

\* lines 163-221: an ordinary statement is appended
PBA_Statement ==
    /\ InBlock /\ Top.pc = "top" /\ i <= n
    /\ ~IsSkip(Raw) /\ ~IsTerminator(Raw) /\ ~IsIfHead(Raw) /\ IsStatement(Raw)
    /\ i' = i + 1
    /\ pstack' = SetTop([Top EXCEPT !.actions = Append(@, ActionOf(Raw))])
    /\ UNCHANGED <<invoked_in, ran_away, entered, parsed, tree, evaluated, store, evars, hvars, gvars, lines, ppc, ret, prog, flow_name, st_name, perr>>

\* line 223: anything else is a ValueError
PBA_Unrecognized ==
    /\ InBlock /\ Top.pc = "top" /\ i <= n
    /\ ~IsSkip(Raw) /\ ~IsTerminator(Raw) /\ ~IsIfHead(Raw) /\ ~IsStatement(Raw)
    /\ Raise("unrecognized statement")

\* lines 66-67 and 102-103: while i < n and not startswith("}"): sub = parse_block_actions()
PBA_BodyLoop ==
    /\ InBlock /\ Top.pc \in {"then_loop", "elif_loop"}
    /\ IF i <= n /\ ~StartsWithBrace(Raw)
       THEN pstack' = Call(IF Top.pc = "then_loop" THEN "then_ret" ELSE "elif_ret")
       ELSE pstack' = SetTop([Top EXCEPT !.pc = IF Top.pc = "then_loop"
                                                  THEN "then_check" ELSE "elif_check"])
    /\ UNCHANGED <<invoked_in, ran_away, entered, parsed, tree, evaluated, store, evars, hvars, gvars, lines, i, ppc, ret, prog, flow_name, st_name, perr>>

\* lines 68-71 and 104-107: extend with sub; break when the line starts with "}"
PBA_BodyRet ==
    /\ InBlock /\ Top.pc \in {"then_ret", "elif_ret"}
    /\ LET loop == IF Top.pc = "then_ret" THEN "then_loop" ELSE "elif_loop"
           check == IF Top.pc = "then_ret" THEN "then_check" ELSE "elif_check"
       IN pstack' = SetTop([Top EXCEPT !.acc = @ \o ret,
                                       !.pc = IF i <= n /\ StartsWithBrace(Raw)
                                              THEN check ELSE loop])
    /\ UNCHANGED <<invoked_in, ran_away, entered, parsed, tree, evaluated, store, evars, hvars, gvars, lines, i, ppc, ret, prog, flow_name, st_name, perr>>

\* lines 72-84 and 108-116: the block must end at "}", "} elif" or "} else"
PBA_BodyCheck ==
    /\ InBlock /\ Top.pc \in {"then_check", "elif_check"}
    /\ i <= n
    /\ Raw = "}" \/ StartsWithBraceElif(Raw) \/ StartsWithBraceElse(Raw)
    /\ i' = IF Raw = "}" THEN i + 1 ELSE i
    /\ pstack' = SetTop([Top EXCEPT !.branches = Append(@, [cond |-> Top.cond, actions |-> Top.acc]),
                                    !.pc = "elif_head"])
    /\ UNCHANGED <<invoked_in, ran_away, entered, parsed, tree, evaluated, store, evars, hvars, gvars, lines, ppc, ret, prog, flow_name, st_name, perr>>

\* lines 72-73, 80-81, 108-109, 114-115: no closing brace
PBA_BodyUnclosed ==
    /\ InBlock /\ Top.pc \in {"then_check", "elif_check"}
    /\ i > n \/ (i <= n /\ ~(Raw = "}" \/ StartsWithBraceElif(Raw) \/ StartsWithBraceElse(Raw)))
    /\ Raise("missing right brace")

\* lines 85-101: collect an elif clause, written "} elif <cond> {" or "elif <cond> {"
PBA_Elif ==
    /\ InBlock /\ Top.pc = "elif_head" /\ i <= n
    /\ \/ StartsWithBraceElif(Raw) /\ ElifPartEndsWithBrace(Raw)
       \/ ~StartsWithBraceElif(Raw) /\ IsElifHead(Raw)
    /\ i' = i + 1
    /\ pstack' = SetTop([Top EXCEPT !.cond = CondOf(Raw), !.acc = <<>>, !.pc = "elif_loop"])
    /\ UNCHANGED <<invoked_in, ran_away, entered, parsed, tree, evaluated, store, evars, hvars, gvars, lines, ppc, ret, prog, flow_name, st_name, perr>>

\* lines 89-90: "} elif" without the trailing "{"
PBA_ElifSyntax ==
    /\ InBlock /\ Top.pc = "elif_head" /\ i <= n
    /\ StartsWithBraceElif(Raw) /\ ~ElifPartEndsWithBrace(Raw)
    /\ Raise("elif syntax")

\* lines 85, 98-99: no further elif
PBA_ElifDone ==
    /\ InBlock /\ Top.pc = "elif_head"
    /\ i > n \/ (i <= n /\ ~StartsWithBraceElif(Raw) /\ ~IsElifHead(Raw))
    /\ pstack' = SetTop([Top EXCEPT !.pc = "else_opt"])
    /\ UNCHANGED <<invoked_in, ran_away, entered, parsed, tree, evaluated, store, evars, hvars, gvars, lines, i, ppc, ret, prog, flow_name, st_name, perr>>

\* lines 119-124 and 134-145: the optional else clause is opened
PBA_Else ==
    /\ InBlock /\ Top.pc = "else_opt" /\ i <= n
    /\ \/ /\ StartsWithBraceElse(Raw)
          /\ i' = i + 1
       \/ /\ ~StartsWithBraceElse(Raw) /\ Raw = "else {"
          /\ i' = i + 1
       \/ /\ ~StartsWithBraceElse(Raw) /\ Raw = "else"
          /\ i + 1 <= n /\ Strip(lines[i + 1]) = "{"
          /\ i' = i + 2
    /\ pstack' = SetTop([Top EXCEPT !.acc = <<>>, !.pc = "else_loop"])
    /\ UNCHANGED <<invoked_in, ran_away, entered, parsed, tree, evaluated, store, evars, hvars, gvars, lines, ppc, ret, prog, flow_name, st_name, perr>>

\* lines 140-141 and 143-144: a malformed else opening
PBA_ElseSyntax ==
    /\ InBlock /\ Top.pc = "else_opt" /\ i <= n
    /\ ~StartsWithBraceElse(Raw) /\ StartsWithElse(Raw)
    /\ \/ Raw = "else" /\ (i + 1 > n \/ Strip(lines[i + 1]) /= "{")
       \/ Raw \notin {"else {", "else"}
    /\ Raise("else syntax")

\* lines 119-120, 156-160: the chain is appended (here with no else clause)
PBA_NoElse ==
    /\ InBlock /\ Top.pc = "else_opt"
    /\ i > n \/ (i <= n /\ ~StartsWithBraceElse(Raw) /\ ~StartsWithElse(Raw))
    /\ pstack' = SetTop([Top EXCEPT
            !.actions = Append(@, [kind |-> "if_chain", branches |-> Top.branches, else |-> <<>>]),
            !.pc = "top"])
    /\ UNCHANGED <<invoked_in, ran_away, entered, parsed, tree, evaluated, store, evars, hvars, gvars, lines, i, ppc, ret, prog, flow_name, st_name, perr>>

\* lines 125-126 and 146-147: while i < n and lines[i].strip() != "}": sub = parse_block_actions()
PBA_ElseLoop ==
    /\ InBlock /\ Top.pc = "else_loop"
    /\ IF i <= n /\ Raw /= "}"
       THEN pstack' = Call("else_ret")
       ELSE pstack' = SetTop([Top EXCEPT !.pc = "else_check"])
    /\ UNCHANGED <<invoked_in, ran_away, entered, parsed, tree, evaluated, store, evars, hvars, gvars, lines, i, ppc, ret, prog, flow_name, st_name, perr>>

\* lines 127-130 and 148-151: extend with sub; break when the line is "}"
PBA_ElseRet ==
    /\ InBlock /\ Top.pc = "else_ret"
    /\ pstack' = SetTop([Top EXCEPT !.acc = @ \o ret,
                                    !.pc = IF i <= n /\ Raw = "}"
                                           THEN "else_check" ELSE "else_loop"])
    /\ UNCHANGED <<invoked_in, ran_away, entered, parsed, tree, evaluated, store, evars, hvars, gvars, lines, i, ppc, ret, prog, flow_name, st_name, perr>>

\* lines 131-133, 152-154, 156-160: the else block is closed and the chain appended
PBA_ElseClose ==
    /\ InBlock /\ Top.pc = "else_check"
    /\ i <= n /\ Raw = "}"
    /\ i' = i + 1
    /\ pstack' = SetTop([Top EXCEPT
            !.actions = Append(@, [kind |-> "if_chain", branches |-> Top.branches,
                                   else |-> <<Top.acc>>]),
            !.pc = "top"])
    /\ UNCHANGED <<invoked_in, ran_away, entered, parsed, tree, evaluated, store, evars, hvars, gvars, lines, ppc, ret, prog, flow_name, st_name, perr>>

\* lines 131-132 and 152-153: the else block is not closed
PBA_ElseUnclosed ==
    /\ InBlock /\ Top.pc = "else_check"
    /\ i > n \/ (i <= n /\ Raw /= "}")
    /\ Raise("missing right brace")

parse_block_actions ==
    \/ PBA_Skip \/ PBA_Break \/ PBA_If \/ PBA_Statement \/ PBA_Unrecognized
    \/ PBA_BodyLoop \/ PBA_BodyRet \/ PBA_BodyCheck \/ PBA_BodyUnclosed
    \/ PBA_Elif \/ PBA_ElifSyntax \/ PBA_ElifDone
    \/ PBA_Else \/ PBA_ElseSyntax \/ PBA_NoElse
    \/ PBA_ElseLoop \/ PBA_ElseRet \/ PBA_ElseClose \/ PBA_ElseUnclosed


----------------------------------------------------------------------------
(* parse: the flow / state loop *)

\* d[key] = value on an insertion-ordered dict of [name, ...] records:
\* an existing key keeps its place and takes the new value
DictSet(d, rec) ==
    IF \E k \in 1..Len(d) : d[k].name = rec.name
    THEN [k \in 1..Len(d) |-> IF d[k].name = rec.name THEN rec ELSE d[k]]
    ELSE Append(d, rec)

\* lines 227-231 and 255: a blank, comment or stray line outside any flow
Parse_SkipLine ==
    /\ ppc = "main" /\ i <= n
    /\ IsSkip(Raw) \/ (~StartsWithFlow(Raw) /\ ~StartsWithState(Raw))
    /\ i' = i + 1
    /\ UNCHANGED <<invoked_in, ran_away, entered, parsed, tree, evaluated, store, evars, hvars, gvars, lines, ppc, pstack, ret, prog, flow_name, st_name, perr>>

\* lines 233-237: a flow line creates the flow, empty
Parse_Flow ==
    /\ ppc = "main" /\ i <= n
    /\ ~IsSkip(Raw) /\ StartsWithFlow(Raw)
    /\ flow_name' = NameOf(Raw)
    /\ prog' = DictSet(prog, [name |-> NameOf(Raw), states |-> <<>>])
    /\ i' = i + 1
    /\ ppc' = "flow_loop"
    /\ UNCHANGED <<invoked_in, ran_away, entered, parsed, tree, evaluated, store, evars, hvars, gvars, lines, pstack, ret, st_name, perr>>

\* lines 252-253: a state line outside any flow
Parse_StateOutsideFlow ==
    /\ ppc = "main" /\ i <= n
    /\ ~IsSkip(Raw) /\ ~StartsWithFlow(Raw) /\ StartsWithState(Raw)
    /\ Raise("state outside flow")

\* lines 238-244: a state line opens a state; its block is parsed
Parse_State ==
    /\ ppc = "flow_loop" /\ i <= n
    /\ StartsWithState(Raw)
    /\ st_name' = NameOf(Raw)
    /\ i' = i + 1
    /\ pstack' = <<NewFrame>>
    /\ ppc' = "block"
    /\ UNCHANGED <<invoked_in, ran_away, entered, parsed, tree, evaluated, store, evars, hvars, gvars, lines, ret, prog, flow_name, perr>>

\* lines 244-246: the parsed block becomes the state's actions
Parse_StateRet ==
    /\ ppc = "state_ret"
    /\ prog' = [k \in 1..Len(prog) |->
                  IF prog[k].name = flow_name
                  THEN [prog[k] EXCEPT !.states = DictSet(@, [name |-> st_name, actions |-> ret])]
                  ELSE prog[k]]
    /\ ppc' = "flow_loop"
    /\ UNCHANGED <<invoked_in, ran_away, entered, parsed, tree, evaluated, store, evars, hvars, gvars, lines, i, pstack, ret, flow_name, st_name, perr>>

\* lines 238, 247-248, 250: the next flow line or the end of input ends the flow
Parse_FlowBreak ==
    /\ ppc = "flow_loop"
    /\ i > n \/ (i <= n /\ ~StartsWithState(Raw) /\ StartsWithFlow(Raw))
    /\ ppc' = "main"
    /\ UNCHANGED <<invoked_in, ran_away, entered, parsed, tree, evaluated, store, evars, hvars, gvars, lines, i, pstack, ret, prog, flow_name, st_name, perr>>

\* line 249: any other line inside a flow is stepped over
Parse_FlowSkip ==
    /\ ppc = "flow_loop" /\ i <= n
    /\ ~StartsWithState(Raw) /\ ~StartsWithFlow(Raw)
    /\ i' = i + 1
    /\ UNCHANGED <<invoked_in, ran_away, entered, parsed, tree, evaluated, store, evars, hvars, gvars, lines, ppc, pstack, ret, prog, flow_name, st_name, perr>>

\* mutant: the empty-program check is dropped
NoFlows_Never == FALSE

\* lines 257-258: if not prog.flows: raise
NoFlows == Len(prog) = 0

\* lines 257-259: a Program with no flow is an error, otherwise it is returned
Parse_Finish ==
    /\ ppc = "main" /\ i > n
    /\ IF NoFlows
       THEN /\ ppc' = "error"
            /\ perr' = "no flow"
       ELSE /\ ppc' = "done"
            /\ perr' = perr
    /\ UNCHANGED <<invoked_in, ran_away, entered, parsed, tree, evaluated, store, evars, hvars, gvars, lines, i, pstack, ret, prog, flow_name, st_name>>

\* JSON values of the store: a string, a number, null
JS(str) == [t |-> "str", s |-> str]

JNum(digits) == [t |-> "num", s |-> digits]

JNull == [t |-> "null", s |-> ""]

\* str(value) of a value json.loads has returned
JStr(v) == IF v.t = "null" THEN "None" ELSE v.s

\* what the file at the path may hold: nothing (no file), text that is not
\* JSON, no text, JSON that is not an object (a list, a string, a number,
\* null), or an object
Missing == [kind |-> "missing", data |-> <<>>]

Garbage == [kind |-> "garbage", data |-> <<>>]

EmptyFile == [kind |-> "empty", data |-> <<>>]

NonObject == [kind |-> "nonobject", data |-> <<>>]

Obj(d) == [kind |-> "object", data |-> d]

StoreContents ==
    {Missing, Garbage, EmptyFile, NonObject, Obj(<<>>),
     Obj([k \in {"w"} |-> JS("b")]),
     Obj([k \in {"w", "x"} |-> IF k = "w" THEN JNum("5") ELSE JNull]),
     Obj([k \in {"v"} |-> JS("z")])}

\* no engine is running
EngineOff ==
    /\ flow = <<>> /\ state_name = "" /\ ctx = <<>> /\ visits = <<>>
    /\ last_asked_var = "" /\ use_llm = FALSE /\ epc = "off" /\ guard = 0
    /\ estack = <<>> /\ eret = "" /\ buffer = <<>> /\ target = "" /\ err = ""
    /\ host = "" /\ hpc = "off" /\ steps = 0 /\ inputs = <<>> /\ called = 0
    /\ pending = <<>> /\ msgs = <<>> /\ chat = <<>> /\ await_var = ""
    /\ out = <<>> /\ produced = <<>> /\ log = <<>>
    /\ store = Missing
    /\ tree = <<>> /\ evaluated = Unset
    /\ entered = <<>>
    /\ ran_away = FALSE
    /\ invoked_in = ""

\* parse(text), lines 37-41
ParseInit ==
    /\ lines \in Sources
    /\ i = 1
    /\ ppc = "main"
    /\ pstack = <<>>
    /\ ret = <<>>
    /\ prog = <<>>
    /\ flow_name = ""
    /\ st_name = ""
    /\ perr = ""
    /\ parsed = NotYet
    /\ EngineOff

ParseNext ==
    \/ Parse_SkipLine \/ Parse_Flow \/ Parse_StateOutsideFlow
    \/ Parse_State \/ Parse_StateRet \/ Parse_FlowBreak \/ Parse_FlowSkip
    \/ Parse_Finish
    \/ parse_block_actions

SpecParse == ParseInit /\ [][ParseNext]_vars

\* parse is a sequential function: it always takes its next step
SpecParseFair == ParseInit /\ [][ParseNext]_vars /\ WF_vars(ParseNext)

ParseTerminated == ppc \in {"done", "error"}

\* a blank line and a comment line
Fillers == {"", "# note"}

\* the text with the line put in behind its k-th line
InsertLine(text, k, line) == SubSeq(text, 1, k) \o <<line>> \o SubSeq(text, k + 1, Len(text))

\* parse has returned a Program; parse(text) is called again (lines 37-41)
\* on the same text with one blank or comment line between two of its lines
Parse_Again ==
    /\ ppc = "done" /\ parsed.kind = "none"
    /\ \E k \in 1..(Len(lines) - 1), line \in Fillers :
          lines' = InsertLine(lines, k, line)
    /\ parsed' = [kind |-> "program", lines |-> lines, prog |-> prog]
    /\ i' = 1 /\ ppc' = "main" /\ pstack' = <<>> /\ ret' = <<>>
    /\ prog' = <<>> /\ flow_name' = "" /\ st_name' = "" /\ perr' = ""
    /\ UNCHANGED <<invoked_in, ran_away, entered, tree, evaluated, store, evars, hvars, gvars>>

ReparseNext == ParseNext \/ Parse_Again

SpecReparse == ParseInit /\ [][ReparseNext]_vars


----------------------------------------------------------------------------
(* Properties of parse *)

\* C3: parse terminates on every input: every run of parse ends by returning
\* a Program or by raising a fatal error; in particular an if block left
\* open before the next state / flow line does not make it loop.
C3_ParseTerminates == <>ParseTerminated

\* the braces a line opens and closes
Opens(raw) ==
    IF IsIfHead(raw) \/ IsElifHead(raw) \/ ElifPartEndsWithBrace(raw)
       \/ raw \in {"} else {", "else {", "{"}
    THEN 1 ELSE 0

Closes(raw) == IF StartsWithBrace(raw) THEN 1 ELSE 0

RECURSIVE Depth(_)
\* the number of blocks open just before line k
Depth(k) ==
    IF k <= 1 THEN 0
    ELSE Depth(k - 1) + Opens(Strip(lines[k - 1])) - Closes(Strip(lines[k - 1]))

\* the braces of the source are balanced: every "}" closes an open block and
\* no block is left open at the end
WellNested ==
    /\ \A k \in 1..n : Closes(Strip(lines[k])) = 1 => Depth(k) >= 1
    /\ Depth(n + 1) = 0

\* the parser consumes the "} elif" / "} else" line i as a clause of the
\* chain of the innermost activation
AttachesClause ==
    /\ InBlock /\ Top.pc \in {"elif_head", "else_opt"} /\ i <= n
    /\ StartsWithBraceElif(Raw) \/ StartsWithBraceElse(Raw)
    /\ i' = i + 1
    /\ ppc' = "block"

\* C4: in a source with balanced braces every "} elif <cond> {" / "} else {"
\* clause is attached to the if-chain whose block its "}" closes: the
\* clause line, once its "}" has closed a block, is at the nesting depth of
\* the chain's "if" line, so the clause following an inner if belongs to
\* the outer chain.
C4_ClauseJoinsItsChain ==
    [][(WellNested /\ AttachesClause) => Depth(i) - 1 = Depth(Top.ifline)]_vars

\* a state line has been parsed in the flow being filled
InStateRegion ==
    \E k \in 1..Len(prog) : prog[k].name = flow_name /\ Len(prog[k].states) > 0

\* C5: no non-blank, non-comment line between a state line and the next
\* state / flow line is silently discarded: the flow loop never steps over
\* such a line (a stray "}" and what follows it included).
C5_NoLineDropped ==
    [][(ppc = "flow_loop" /\ ppc' = "flow_loop" /\ i' = i + 1 /\ InStateRegion)
          => IsSkip(Raw)]_vars

HasFlowLine == \E k \in 1..n : StartsWithFlow(Strip(lines[k])) /\ ~IsSkip(Strip(lines[k]))

\* C6 as stated: a returned Program has at least one flow, every flow has
\* at least one state, and a source with no flow line does not parse.
C6_EveryFlowHasState ==
    ppc = "done" =>
        /\ Len(prog) >= 1
        /\ \A k \in 1..Len(prog) : Len(prog[k].states) >= 1
        /\ HasFlowLine

\* the last flow line naming f, and whether a state line follows it before
\* the next flow line
LastFlowLine(f) ==
    CHOOSE k \in 1..n :
        /\ StartsWithFlow(Strip(lines[k])) /\ NameOf(Strip(lines[k])) = f
        /\ \A j \in (k + 1)..n :
              ~(StartsWithFlow(Strip(lines[j])) /\ NameOf(Strip(lines[j])) = f)

StateFollows(k) ==
    \E j \in (k + 1)..n :
        /\ StartsWithState(Strip(lines[j]))
        /\ \A m \in (k + 1)..(j - 1) : ~StartsWithFlow(Strip(lines[m]))

\* C6 amended: a returned Program has at least one flow; a flow has a state
\* exactly when a state line follows its flow line before the next flow
\* line, so a flow line followed by no state line yields a flow with zero
\* states; a source with no flow line does not parse.
C6_AtLeastOneFlow ==
    ppc = "done" =>
        /\ Len(prog) >= 1
        /\ \A k \in 1..Len(prog) :
              (Len(prog[k].states) >= 1) <=> StateFollows(LastFlowLine(prog[k].name))
        /\ HasFlowLine

\* parse has returned a Program holding a flow with no state
C6_Witness == ppc = "done" /\ \E k \in 1..Len(prog) : Len(prog[k].states) = 0


----------------------------------------------------------------------------
(* The engine: values, expressions and interpolation *)

\* Python's None
None == "<None>"

\* the literal texts of the model's programs
HelloTpl == <<[lit |-> "Hello "], [var |-> "name", default |-> "there"]>>

NiceTpl == <<[lit |-> "Nice to meet you, "], [var |-> "name", default |-> ""]>>

Lit(t) == <<[lit |-> t]>>

\* ctx.get(var, "")
CtxGet(c, var) == IF var \in DOMAIN c THEN c[var] ELSE ""

\* self.ctx[var] = value
CtxSet(c, var, value) ==
    [v \in (DOMAIN c) \cup {var} |-> IF v = var THEN value ELSE c[v]]

\* _apply_filter(value, "default", arg): s if s != "" else (arg or "")
ApplyDefault(val, arg) == IF val /= "" THEN val ELSE arg

RECURSIVE _interpolate(_, _)
\* _VAR_TAG_RE.sub(repl, s): each {{var|default:"arg"}} tag is replaced by the
\* variable's value (a tag with no filter reads as default "")
_interpolate(parts, c) ==
    IF parts = <<>> THEN ""
    ELSE LET p == Head(parts)
             piece == IF "lit" \in DOMAIN p THEN p.lit
                      ELSE ApplyDefault(CtxGet(c, p.var), p.default)
         IN piece \o _interpolate(Tail(parts), c)

NoNum == -1

\* float(s) on the strings of the model, NoNum where float() raises
_to_number(str) ==
    CASE str \in {"1", "1.0"} -> 1
      [] str = "2" -> 2
      [] str = "0" -> 0
      [] str = "3" -> 3
      [] str = "4" -> 4
      [] str = "5" -> 5
      [] str = "9" -> 9
      [] str = "10" -> 10
      [] OTHER -> NoNum

\* _compare(a, "==", b) and _do_compare(a, "==", b): numeric when both sides
\* coerce, else by string
_compare(a, op, b) ==
    LET na == _to_number(a)
        nb == _to_number(b)
    IN IF na /= NoNum /\ nb /= NoNum
       THEN (IF op = "==" THEN na = nb ELSE na /= nb)
       ELSE (IF op = "==" THEN a = b ELSE a /= b)

\* the whitelist of callable names
_FUNC_WHITELIST ==
    {"len", "abs", "int", "float", "str", "upper", "lower", "title", "trim",
     "min", "max", "contains"}

\* ---- values: Number, String, Bool, Null, and the raised error ----

VNum(x) == [t |-> "num", n |-> x, s |-> ""]

VStr(str) == [t |-> "str", n |-> 0, s |-> str]

VBool(b) == [t |-> "bool", n |-> IF b THEN 1 ELSE 0, s |-> ""]

VNone == [t |-> "none", n |-> 0, s |-> ""]

\* the evaluation raised (ValueError, TypeError, ...)
VErr == [t |-> "err", n |-> 0, s |-> ""]

\* str(x) for the integers of the model
NumStr(x) ==
    CASE x = 0 -> "0" [] x = 1 -> "1" [] x = 2 -> "2" [] x = 3 -> "3"
      [] x = 4 -> "4" [] x = 5 -> "5" [] x = 9 -> "9" [] x = 10 -> "10"

\* str(v)
PyStr(v) ==
    CASE v.t = "str" -> v.s
      [] v.t = "num" -> NumStr(v.n)
      [] v.t = "bool" -> IF v.n = 1 THEN "True" ELSE "False"
      [] v.t = "none" -> "None"

\* the strings of the model in the order Python's < gives them (code points)
StrOrder ==
    <<"", "0", "1", "1.0", "10", "2", "3", "4", "5", "9", "Ann", "Bob",
      "False", "None", "True", "a", "ab", "again", "b", "old", "other",
      "x", "z">>

StrRank(str) == CHOOSE k \in 1..Len(StrOrder) : StrOrder[k] = str

\* len(s) for the strings of the model
StrLen(str) ==
    CASE str = "" -> 0
      [] str \in {"0", "1", "2", "3", "4", "5", "9", "a", "b", "x", "z"} -> 1
      [] str \in {"10", "ab"} -> 2
      [] str \in {"1.0", "Ann", "Bob", "old"} -> 3
      [] str \in {"None", "True"} -> 4
      [] str \in {"False", "again", "other"} -> 5

\* _to_number_maybe(v): the number, NoNum for None
_to_number_maybe(v) ==
    CASE v.t \in {"num", "bool"} -> v.n
      [] v.t = "str" -> _to_number(v.s)
      [] OTHER -> NoNum

\* the comparison operators _eval_bool and _do_compare know
CompareOps == {"==", "!=", ">", "<", ">=", "<="}

\* mutant: operands are always compared as strings
_do_compare_AsStrings(a, op, b) ==
    LET ra == StrRank(PyStr(a))
        rb == StrRank(PyStr(b))
    IN CASE op = "==" -> ra = rb [] op = "!=" -> ra /= rb
         [] op = ">" -> ra > rb  [] op = "<" -> ra < rb
         [] op = ">=" -> ra >= rb [] op = "<=" -> ra <= rb

\* _do_compare(a, op, b) for op in CompareOps: numeric when both sides
\* coerce (_as_numbers), else str(a) against str(b)
_do_compare(a, op, b) ==
    LET na == _to_number_maybe(a)
        nb == _to_number_maybe(b)
        num == na /= NoNum /\ nb /= NoNum
        x == IF num THEN na ELSE StrRank(PyStr(a))
        y == IF num THEN nb ELSE StrRank(PyStr(b))
    IN CASE op = "==" -> x = y [] op = "!=" -> x /= y
         [] op = ">" -> x > y  [] op = "<" -> x < y
         [] op = ">=" -> x >= y [] op = "<=" -> x <= y

\* ---- expression trees, as ast.parse gives them ----

Const(v) == [k |-> "Constant", v |-> v]

Name(id) == [k |-> "Name", id |-> id]

\* func is a Name; keywords are the call's keyword arguments
CallNode(fn, args, keywords) == [k |-> "Call", fn |-> fn, args |-> args, keywords |-> keywords]

Subscript(value, index) == [k |-> "Subscript", value |-> value, index |-> index]

Attribute(value, attr) == [k |-> "Attribute", value |-> value, attr |-> attr]

BinOp(l, op, r) == [k |-> "BinOp", l |-> l, op |-> op, r |-> r]

\* a node of no kind the evaluator knows (a list display)
ListNode(elts) == [k |-> "List", elts |-> elts]

BoolOp(op, values) == [k |-> "BoolOp", op |-> op, values |-> values]

Not(operand) == [k |-> "Not", operand |-> operand]

Compare(left, ops, comparators) ==
    [k |-> "Compare", left |-> left, ops |-> ops, comparators |-> comparators]

\* the conditions of the model's programs
NameEq(var, lit) == Compare(Name(var), <<"==">>, <<Const(VStr(lit))>>)

NameNe(var, lit) == Compare(Name(var), <<"!=">>, <<Const(VStr(lit))>>)

CallOf(fn, var) == CallNode(fn, <<Name(var)>>, <<>>)

\* lines 78-90: the whitelisted functions that the model's expressions
\* apply, on the evaluated arguments; a wrong number of arguments raises
ApplyFn(fn, args) ==
    CASE fn = "len" -> IF Len(args) = 1 THEN VNum(StrLen(PyStr(args[1]))) ELSE VErr
      [] fn = "str" -> IF Len(args) = 1 THEN VStr(PyStr(args[1])) ELSE VErr

\* _ALLOWED_BINOPS
AllowedBinOps == {"+", "-", "*", "/", "//", "%"}

RECURSIVE _eval_value_node(_, _)
\* _eval_value_node(node, ctx): the value, VErr when it raises.  Of the
\* binary operators the model's expressions use + only, and no unary sign.
_eval_value_node(node, c) ==
    CASE node.k = "BinOp" ->
            IF node.op \notin AllowedBinOps THEN VErr
            ELSE LET l == _eval_value_node(node.l, c)
                     r == _eval_value_node(node.r, c)
                 IN IF l = VErr \/ r = VErr THEN VErr
                    ELSE IF _to_number_maybe(l) /= NoNum /\ _to_number_maybe(r) /= NoNum
                                /\ l.t /= "none" /\ r.t /= "none"
                         THEN VNum(_to_number_maybe(l) + _to_number_maybe(r))
                         ELSE IF l.t = "str" /\ r.t = "str"
                              THEN VStr(l.s \o r.s)
                              ELSE VErr
      [] node.k = "Name" ->
            CASE node.id \in {"true", "True", "TRUE"} -> VBool(TRUE)
              [] node.id \in {"false", "False", "FALSE"} -> VBool(FALSE)
              [] node.id \in {"null", "Null", "NULL"} -> VNone
              [] OTHER -> VStr(CtxGet(c, node.id))
      [] node.k = "Constant" -> node.v
      [] node.k = "Call" ->
            IF node.fn \notin _FUNC_WHITELIST THEN VErr
            ELSE LET args == [j \in 1..Len(node.args) |-> _eval_value_node(node.args[j], c)]
                 IN IF \E j \in 1..Len(args) : args[j] = VErr
                    THEN VErr
                    ELSE ApplyFn(node.fn, args)
      [] node.k \in {"Subscript", "Attribute"} -> VErr
      [] OTHER -> VErr

\* bool(v) as _eval_bool takes it (lines 263-266)
Truthy(v) ==
    CASE v.t \in {"num", "bool"} -> v.n /= 0
      [] v.t = "str" -> v.s /= ""
      [] OTHER -> FALSE

RECURSIVE _eval_bool(_, _)
RECURSIVE BoolOpFrom(_, _, _, _)
RECURSIVE CompareFrom(_, _, _, _)

\* lines 232-241: and / or over node.values from the j-th on
BoolOpFrom(node, j, c, dummy) ==
    IF j > Len(node.values)
    THEN (IF node.op = "and" THEN "T" ELSE "F")
    ELSE LET r == _eval_bool(node.values[j], c)
         IN CASE r = "Err" -> "Err"
              [] node.op = "and" /\ r = "F" -> "F"
              [] node.op = "or" /\ r = "T" -> "T"
              [] OTHER -> BoolOpFrom(node, j + 1, c, dummy)

\* lines 249-261: the pairs of a comparison from the j-th on, cur on the left
CompareFrom(node, j, cur, c) ==
    IF j > Len(node.ops) THEN "T"
    ELSE LET right_val == _eval_value_node(node.comparators[j], c)
         IN CASE right_val = VErr -> "Err"
              [] node.ops[j] \notin CompareOps -> "Err"
              [] ~_do_compare(cur, node.ops[j], right_val) -> "F"
              [] OTHER -> CompareFrom(node, j + 1, right_val, c)

\* _eval_bool(expr, ctx): "T", "F", or "Err" when it raises
_eval_bool(node, c) ==
    CASE node.k = "BoolOp" ->
            IF node.op \in {"and", "or"} THEN BoolOpFrom(node, 1, c, 0) ELSE "Err"
      [] node.k = "Not" ->
            LET r == _eval_bool(node.operand, c)
            IN CASE r = "Err" -> "Err" [] r = "T" -> "F" [] OTHER -> "T"
      [] node.k = "Compare" ->
            LET left_val == _eval_value_node(node.left, c)
            IN IF left_val = VErr THEN "Err" ELSE CompareFrom(node, 1, left_val, c)
      [] node.k \in {"Constant", "Name", "BinOp", "Call"} ->
            LET v == _eval_value_node(node, c)
            IN IF v = VErr THEN "Err" ELSE IF Truthy(v) THEN "T" ELSE "F"
      [] OTHER -> "Err"

----------------------------------------------------------------------------
(* The evaluator on its own: _eval_expr and _eval_bool on bounded trees *)

\* value expressions the grammar allows
AllowedValues ==
    {Const(VNum(1)), Const(VNum(2)), Const(VStr("10")), Const(VStr("9")),
     Const(VStr("a")), Const(VStr("b")), Name("a"), Name("b"), Name("true"),
     Name("null"), CallNode("len", <<Name("a")>>, <<>>)}

\* a call of a name outside the whitelist
OpenCall == CallNode("open", <<Const(VStr("x"))>>, <<>>)

\* value expressions with syntax the grammar does not allow: an unknown
\* call, a subscript, an attribute access, a list display, a power, an
\* unknown call or a subscript as an argument, and as a keyword argument
ForbiddenValues ==
    {OpenCall,
     Subscript(Name("a"), Const(VNum(0))),
     Attribute(Name("a"), "real"),
     ListNode(<<>>),
     BinOp(Const(VNum(1)), "**", Const(VNum(2))),
     CallNode("len", <<OpenCall>>, <<>>),
     CallNode("str", <<Subscript(Name("a"), Const(VNum(0)))>>, <<>>),
     CallNode("len", <<Const(VStr("ab"))>>, <<OpenCall>>),
     CallNode("str", <<Name("a")>>, <<Attribute(Name("a"), "real")>>)}

\* the operands of the model's boolean expressions
Operands == AllowedValues \cup ForbiddenValues

\* the operands of the model's two-operator chains
ChainOperands ==
    {Const(VNum(1)), Const(VNum(2)), Const(VStr("10")), Const(VStr("a")),
     Name("b"), OpenCall, Subscript(Name("a"), Const(VNum(0)))}

Exprs ==
    Operands
      \cup {BinOp(x, "+", y) : x, y \in {Const(VNum(1)), Const(VStr("a")), Name("b"), OpenCall}}
      \cup {Compare(x, <<op>>, <<y>>) : x, y \in Operands, op \in {"==", "<", ">="}}
      \cup {Compare(x, <<">">>, <<y>>) :
               x, y \in {Const(VStr("10")), Const(VStr("9")), Const(VStr("a")), Const(VStr("b"))}}
      \cup {Compare(x, <<"is">>, <<y>>) : x, y \in {Const(VNum(1)), OpenCall}}
      \cup {Compare(x, <<op1, op2>>, <<y, z>>) :
               x, y, z \in ChainOperands, op1 \in {"<", "!="}, op2 \in {">", "<="}}
      \cup {BoolOp(op, <<x, y>>) : x, y \in Operands, op \in {"and", "or"}}
      \cup {Not(x) : x \in Operands}
      \cup {BoolOp("or", <<Not(Compare(x, <<"<">>, <<y>>)), z>>) :
               x, y \in {Const(VStr("10")), Const(VStr("9"))}, z \in {Name("null"), OpenCall}}

\* the contexts the expressions are evaluated in
EvalContexts == {<<>>, [v \in {"a", "b"} |-> IF v = "a" THEN "10" ELSE "9"]}

----------------------------------------------------------------------------
(* The programs the engine is run on *)

Reply(parts) == [kind |-> "reply", text |-> parts]

Ask(var, prompt) == [kind |-> "ask", var |-> var, prompt |-> prompt]

Set(var, value) == [kind |-> "set", var |-> var, value |-> value]

Goto(t) == [kind |-> "goto", target |-> t]

IfGoto(left, right, t) == [kind |-> "if_goto", left |-> left, right |-> right, target |-> t]

\* else is <<>> for None and <<list>> for a list
IfChain(branches, els) == [kind |-> "if_chain", branches |-> branches, else |-> els]

Branch(cond, actions) == [cond |-> cond, actions |-> actions]

Save(var, path) == [kind |-> "save", var |-> var, path |-> path]

Load(var, path) == [kind |-> "load", var |-> var, path |-> path]

\* the example of the specification's section 8
GreetFlow ==
    << [name |-> "greet", actions |->
          <<Reply(HelloTpl), Ask("name", "What is your name?"), Goto("done")>>],
       [name |-> "done", actions |-> <<Reply(NiceTpl)>>] >>

\* a menu whose second visit has no explicit target, with a fallback state
MenuFlow ==
    << [name |-> "menu", actions |->
          <<Reply(Lit("Menu")), Ask("choice", "Which?"),
            IfGoto("choice", "1", "billing"),
            IfChain(<<Branch(NameEq("choice", "again"), <<Goto("again")>>)>>, <<>>),
            Reply(Lit("Unknown choice"))>>],
       [name |-> "billing", actions |-> <<Reply(Lit("Billing"))>>],
       [name |-> "again", actions |-> <<Set("choice", "other"), Goto("menu")>>],
       [name |-> "end", actions |-> <<Reply(Lit("Bye"))>>] >>

\* nested chains with a fallback state: a goto two levels deep, a condition that cannot be
\* evaluated behind one that may be true, an else list, a chain that may
\* match nothing
ChainFlow ==
    << [name |-> "s", actions |->
          <<Reply(Lit("pre")),
            Ask("v", "v?"),
            IfChain(<<Branch(NameEq("v", "a"),
                             <<Reply(Lit("A1")),
                               Ask("w", "w?"),
                               IfChain(<<Branch(NameEq("w", "x"),
                                                <<Reply(Lit("AX")), Goto("t"), Reply(Lit("AX2"))>>),
                                         Branch(NameEq("w", "1"),
                                                <<IfGoto("w", "1.0", "t"), Reply(Lit("A1b"))>>)>>,
                                       <<<<Reply(Lit("AE"))>>>>),
                               Reply(Lit("A2"))>>),
                      Branch(NameNe("v", "b"), <<Reply(Lit("B"))>>),
                      Branch(CallOf("open", "v"), <<Reply(Lit("C"))>>)>>,
                    <<>>),
            IfChain(<<Branch(CallOf("len", "w"), <<Reply(Lit("W"))>>)>>, <<<<>>>>),
            Reply(Lit("post"))>>],
       [name |-> "t", actions |-> <<Reply(Lit("T"))>>],
       [name |-> "end", actions |-> <<>>] >>

\* two states that goto each other
LoopFlow ==
    << [name |-> "p", actions |-> <<Goto("q")>>],
       [name |-> "q", actions |-> <<Goto("p")>>] >>

\* a goto to a state the flow does not have
MissingFlow ==
    << [name |-> "s", actions |-> <<Reply(Lit("s")), Goto("nowhere")>>] >>

\* an if_goto and a goto to states the flow does not have, behind an ask,
\* in a flow with a fallback state
LostFlow ==
    << [name |-> "s", actions |->
          <<Ask("v", "v?"), IfGoto("v", "x", "ghost"), Goto("nowhere")>>],
       [name |-> "end", actions |-> <<>>] >>

\* a variable is saved to and loaded from the store
StoreFlow ==
    << [name |-> "s", actions |->
          <<Set("v", "a"), Load("w", "f"), Save("v", "f"), Load("v", "f"),
            Reply(Lit("ok"))>>] >>

\* the values a digit of the counting program runs through
Marks ==
    <<"Ann", "Bob", "False", "None", "True", "a", "ab", "again", "b", "old",
      "other", "x", "z">>

\* if var == m1 { set var = m2 } elif var == m2 { set var = m3 } ...
\* else { carry }: the digit takes its next value, or carries
NextMark(var, carry) ==
    IfChain([j \in 1..(Len(Marks) - 1) |->
                Branch(NameEq(var, Marks[j]), <<Set(var, Marks[j + 1])>>)],
            <<carry>>)

\* a program that counts its visits of s with three digits and halts after
\* Len(Marks)^3 of them, asking once on the way
OdometerFlow ==
    << [name |-> "init", actions |->
          <<Set("d1", Marks[1]), Set("d2", Marks[1]), Set("d3", Marks[1]), Goto("s")>>],
       [name |-> "s", actions |->
          <<IfChain(<<Branch(NameEq("d1", Marks[8]), <<Ask("v", "v?")>>)>>, <<>>),
            NextMark("d3",
               <<Set("d3", Marks[1]),
                 NextMark("d2",
                    <<Set("d2", Marks[1]),
                      NextMark("d1", <<Goto("fin")>>)>>)>>),
            Goto("s")>>],
       [name |-> "fin", actions |-> <<>>] >>

\* a set in front of a chain whose first branch sets the variable it tests
\* and then asks, and whose else list asks for another variable
ResumeFlow ==
    << [name |-> "s", actions |->
          <<Set("k", "a"),
            IfChain(<<Branch(NameEq("x", ""), <<Set("x", "a"), Ask("v", "v?")>>)>>,
                    <<<<Ask("w", "w?")>>>>)>>] >>

Flows ==
    {GreetFlow, MenuFlow, ChainFlow, LoopFlow, MissingFlow, LostFlow, StoreFlow,
     OdometerFlow, ResumeFlow}

\* what the user of each program may type when asked
Answers ==
    CASE flow = GreetFlow -> {"Ann"}
      [] flow = MenuFlow -> {"1", "again", "x"}
      [] flow = ChainFlow -> {"a", "b", "x", "1"}
      [] flow = LostFlow -> {"a", "x"}
      [] OTHER -> {"x"}

\* the prompts of the programs
Prompts == {"What is your name?", "Which?", "v?", "w?"}

\* the contexts an engine of each program may be constructed with (cli --var)
InitialContexts ==
    CASE flow = GreetFlow -> {<<>>, [v \in {"name"} |-> "Bob"]}
      [] flow = ChainFlow -> {<<>>, [v \in {"v", "w"} |-> "a"], [v \in {"v"} |-> "a"]}
      [] flow = StoreFlow -> {<<>>, [v \in {"w"} |-> "old"]}
      [] OTHER -> {<<>>}

\* the programs that are run with a classifier configured (cli --llm)
WithClassifier == {GreetFlow, ChainFlow, LostFlow}

----------------------------------------------------------------------------
(* Engine: construction and the flow's states *)

\* self.flow.states.keys()
StateNames == {flow[k].name : k \in 1..Len(flow)}

\* self.flow.states[name]
StateOf(name) == flow[CHOOSE k \in 1..Len(flow) : flow[k].name = name]

\* lines 296-300: the first of "fallback", "unknown", "end" the flow has
FallbackOf(f) ==
    LET names == {f[k].name : k \in 1..Len(f)}
    IN CASE "fallback" \in names -> "fallback"
         [] "unknown" \in names -> "unknown"
         [] "end" \in names -> "end"
         [] OTHER -> None

fallback_state == FallbackOf(flow)

\* how often the engine has entered the state
EnteredGet(name) == IF name \in DOMAIN entered THEN entered[name] ELSE 0

\* self._visits.get(name, 0)
VisitsGet(name) == IF name \in DOMAIN visits THEN visits[name] ELSE 0


----------------------------------------------------------------------------
(* Engine._exec_actions, one step per action *)

MaxSteps == 3

\* run_iter, line 398: the ceiling on state visits of one run_iter call
GuardLimit == 2000

ETop == estack[Len(estack)]

ESetTop(f) == [estack EXCEPT ![Len(estack)] = f]

\* an activation of _exec_actions(actions, buffer) at its first action
Frame(actions) == [actions |-> actions, pc |-> 1, sub |-> "start", br |-> 1]

\* the action the innermost activation is at
Act == ETop.actions[ETop.pc]

Executing == epc = "exec" /\ estack /= <<>>

AtAction(kind) ==
    /\ Executing
    /\ ETop.pc <= Len(ETop.actions)
    /\ Act.kind = kind

\* the for loop moves on to the next action
Advance == ESetTop([ETop EXCEPT !.pc = @ + 1, !.sub = "start", !.br = 1])

\* an event of the current visit
Ev(ev, a, b) == [ev |-> ev, d |-> Len(estack), a |-> a, b |-> b]

\* self.printer(line) / yield line: the host receives the lines
Deliver(ls) ==
    /\ out' = out \o ls
    /\ msgs' = IF host = "web" THEN msgs \o ls ELSE msgs

\* return ret from the innermost activation: to the caller's
\* ret = self._exec_actions(...), or to run_iter's target = ... (line 406)
EReturn(val) ==
    /\ eret' = val
    /\ estack' = SubSeq(estack, 1, Len(estack) - 1)
    /\ IF Len(estack) = 1
       THEN epc' = "flush" /\ target' = val
       ELSE epc' = epc /\ target' = target

\* lines 311-312
Exec_Reply ==
    /\ AtAction("reply")
    /\ buffer' = Append(buffer, _interpolate(Act.text, ctx))
    /\ produced' = Append(produced, _interpolate(Act.text, ctx))
    /\ log' = Append(log, Ev("reply", _interpolate(Act.text, ctx), 0))
    /\ estack' = Advance
    /\ UNCHANGED <<invoked_in, ran_away, entered, parsed, tree, evaluated, store, pvars, hvars, flow, state_name, ctx, visits, last_asked_var,
                   use_llm, epc, guard, eret, target, err>>

\* lines 314-315
Exec_Set ==
    /\ AtAction("set")
    /\ ctx' = CtxSet(ctx, Act.var, Act.value)
    /\ log' = Append(log, Ev("set", Act.var, 0))
    /\ estack' = Advance
    /\ UNCHANGED <<invoked_in, ran_away, entered, parsed, tree, evaluated, store, pvars, hvars, flow, state_name, visits, last_asked_var,
                   use_llm, epc, guard, eret, buffer, target, err, produced>>

\* mutant: the buffered replies are not flushed before the ask
FlushedBeforeAsk_Nothing(buf) == <<>>

\* lines 323-326: the lines an ask hands to the printer before anything else
FlushedBeforeAsk(buf) == buf

\* lines 321-326: ask first flushes the buffered replies to the printer
Exec_AskFlush ==
    /\ AtAction("ask") /\ ETop.sub = "start"
    /\ Deliver(FlushedBeforeAsk(buffer))
    /\ buffer' = <<>>
    /\ estack' = ESetTop([ETop EXCEPT !.sub = "asking"])
    /\ UNCHANGED <<invoked_in, ran_away, entered, parsed, tree, evaluated, store, pvars, gvars, flow, state_name, ctx, visits, last_asked_var,
                   use_llm, epc, guard, eret, target, err,
                   host, hpc, steps, inputs, called, pending, chat, await_var>>

\* mutant: ask prompts even for a bound variable
AskNeeded_Always(var) == TRUE

\* line 329: if var not in self.ctx
AskNeeded(var) == var \notin DOMAIN ctx

\* lines 328-331, variable bound: no call; the marker is still set
Exec_AskSkip ==
    /\ AtAction("ask") /\ ETop.sub = "asking"
    /\ ~AskNeeded(Act.var)
    /\ last_asked_var' = Act.var
    /\ log' = Append(log, Ev("ask_skip", Act.var, 0))
    /\ estack' = Advance
    /\ UNCHANGED <<invoked_in, ran_away, entered, parsed, tree, evaluated, store, pvars, hvars, flow, state_name, ctx, visits, use_llm, epc,
                   guard, eret, buffer, target, err, produced>>

\* webapp.py 53-57: the first call of a step's ask_fn returns inputs[0]
WebHasAnswer == called = 0 /\ inputs /= <<>>

\* lines 328-331 with cli.py 41-42 or webapp.py 53-56: the collaborator
\* answers and the answer is stored
Exec_AskAnswer ==
    /\ AtAction("ask") /\ ETop.sub = "asking"
    /\ AskNeeded(Act.var)
    /\ \/ /\ host = "cli"
          /\ \E ans \in Answers : ctx' = CtxSet(ctx, Act.var, ans)
          /\ out' = Append(out, Act.prompt)
          /\ UNCHANGED <<invoked_in, ran_away, entered, parsed, tree, evaluated, store, called, msgs>>
       \/ /\ host = "web" /\ WebHasAnswer
          /\ ctx' = CtxSet(ctx, Act.var, inputs[1])
          /\ called' = called + 1
          /\ UNCHANGED <<invoked_in, ran_away, entered, parsed, tree, evaluated, store, out, msgs>>
    /\ last_asked_var' = Act.var
    /\ log' = Append(log, Ev("ask_call", Act.var, 0))
    /\ estack' = Advance
    /\ UNCHANGED <<invoked_in, ran_away, entered, parsed, tree, evaluated, store, pvars, flow, state_name, visits, use_llm, epc, guard, eret,
                   buffer, target, err, produced,
                   host, hpc, steps, inputs, pending, chat, await_var>>

\* lines 328-330 with webapp.py 53-57: the collaborator raises NeedMoreInput,
\* which ends the generator; the engine's fields stay as they are
Exec_AskSuspend ==
    /\ AtAction("ask") /\ ETop.sub = "asking"
    /\ AskNeeded(Act.var)
    /\ host = "web" /\ ~WebHasAnswer
    /\ called' = called + 1
    /\ pending' = <<Act.var, Act.prompt>>
    /\ log' = Append(log, Ev("ask_call", Act.var, 0))
    /\ epc' = "suspended"
    /\ estack' = <<>>
    /\ UNCHANGED <<invoked_in, ran_away, entered, parsed, tree, evaluated, store, pvars, flow, state_name, ctx, visits, last_asked_var, use_llm,
                   guard, eret, buffer, target, err, produced,
                   host, hpc, steps, inputs, msgs, chat, await_var, out>>

\* lines 333-336: a satisfied if_goto returns its target
Exec_IfGoto ==
    /\ AtAction("if_goto")
    /\ IF _compare(CtxGet(ctx, Act.left), "==", Act.right)
       THEN /\ EReturn(Act.target)
            /\ log' = Append(log, Ev("if_goto", Act.target, 1))
       ELSE /\ estack' = Advance
            /\ log' = Append(log, Ev("if_goto", Act.target, 0))
            /\ UNCHANGED <<invoked_in, ran_away, entered, parsed, tree, evaluated, store, epc, eret, target>>
    /\ UNCHANGED <<invoked_in, ran_away, entered, parsed, tree, evaluated, store, pvars, hvars, flow, state_name, ctx, visits, last_asked_var,
                   use_llm, guard, buffer, err, produced>>

\* lines 360-361
Exec_Goto ==
    /\ AtAction("goto")
    /\ EReturn(Act.target)
    /\ log' = Append(log, Ev("goto", Act.target, 0))
    /\ UNCHANGED <<invoked_in, ran_away, entered, parsed, tree, evaluated, store, pvars, hvars, flow, state_name, ctx, visits, last_asked_var,
                   use_llm, guard, buffer, err, produced>>

\* mutant: a branch fires whatever its condition says
BranchFires_Any(res) == res \in {"T", "F"}

\* line 341: if _eval_bool(br["cond"], self.ctx)
BranchFires(res) == res = "T"

\* lines 340-342: the next branch condition is evaluated; a true one runs
\* its actions, a ValueError ends the run
Exec_ChainCond ==
    /\ AtAction("if_chain") /\ ETop.sub = "start"
    /\ ETop.br <= Len(Act.branches)
    /\ LET b == Act.branches[ETop.br]
           res == _eval_bool(b.cond, ctx)
       IN /\ log' = Append(log, Ev("cond", res, ETop.br))
          /\ IF res = "Err"
             THEN /\ epc' = "error"
                  /\ err' = "ValueError"
                  /\ estack' = <<>>
             ELSE /\ estack' = IF BranchFires(res)
                               THEN Append(ESetTop([ETop EXCEPT !.sub = "in_branch"]),
                                           Frame(b.actions))
                               ELSE ESetTop([ETop EXCEPT !.br = @ + 1])
                  /\ UNCHANGED <<invoked_in, ran_away, entered, parsed, tree, evaluated, store, epc, err>>
    /\ UNCHANGED <<invoked_in, ran_away, entered, parsed, tree, evaluated, store, pvars, hvars, flow, state_name, ctx, visits, last_asked_var,
                   use_llm, guard, eret, buffer, target, produced>>

\* line 347: a.get("else") is a non-empty list
HasElse(a) == a.else /= <<>> /\ a.else[1] /= <<>>

\* lines 347-348: no branch fired; the else list runs when there is one
Exec_ChainElse ==
    /\ AtAction("if_chain") /\ ETop.sub = "start"
    /\ ETop.br > Len(Act.branches)
    /\ IF HasElse(Act)
       THEN /\ estack' = Append(ESetTop([ETop EXCEPT !.sub = "in_else"]),
                                Frame(Act.else[1]))
            /\ log' = Append(log, Ev("else", "", 0))
       ELSE /\ estack' = Advance
            /\ log' = Append(log, Ev("no_branch", "", 0))
    /\ UNCHANGED <<invoked_in, ran_away, entered, parsed, tree, evaluated, store, pvars, hvars, flow, state_name, ctx, visits, last_asked_var,
                   use_llm, epc, guard, eret, buffer, target, err, produced>>

\* mutant: a target returned by a branch is dropped
Propagates_Never(val) == FALSE

\* lines 343 and 349: if ret is not None
Propagates(val) == val /= None

\* lines 343-346 and 349-350: a branch or else list has returned; a target
\* is returned further, otherwise the chain is over
Exec_ChainRet ==
    /\ Executing /\ ETop.sub \in {"in_branch", "in_else"}
    /\ IF Propagates(eret)
       THEN EReturn(eret)
       ELSE /\ estack' = Advance
            /\ UNCHANGED <<invoked_in, ran_away, entered, parsed, tree, evaluated, store, epc, eret, target>>
    /\ UNCHANGED <<invoked_in, ran_away, entered, parsed, tree, evaluated, store, pvars, hvars, gvars, flow, state_name, ctx, visits,
                   last_asked_var, use_llm, guard, buffer, err>>

\* line 387: the list is exhausted, return None
Exec_ListEnd ==
    /\ Executing /\ ETop.sub = "start"
    /\ ETop.pc > Len(ETop.actions)
    /\ EReturn(None)
    /\ UNCHANGED <<invoked_in, ran_away, entered, parsed, tree, evaluated, store, pvars, hvars, gvars, flow, state_name, ctx, visits,
                   last_asked_var, use_llm, guard, buffer, err>>

\* lines 366-371: data as save reads it: {} unless the file exists and
\* json.loads returns something for its text (or for "{}" when it is empty)
SaveReads(c) == IF c.kind = "object" THEN c.data ELSE <<>>

\* line 372: data[a["var"]] = ... raises TypeError when json.loads returned
\* a list, a string, a number or None
SaveFails(c) == c.kind = "nonobject"

\* lines 363-373
Exec_Save ==
    /\ AtAction("save")
    /\ log' = Append(log, Ev("save", Act.var, 0))
    /\ IF SaveFails(store)
       THEN /\ epc' = "error"
            /\ err' = "TypeError"
            /\ estack' = <<>>
            /\ store' = store
       ELSE /\ store' = Obj(CtxSet(SaveReads(store), Act.var, JS(CtxGet(ctx, Act.var))))
            /\ estack' = Advance
            /\ UNCHANGED <<invoked_in, ran_away, entered, parsed, tree, evaluated, epc, err>>
    /\ UNCHANGED <<invoked_in, ran_away, entered, parsed, tree, evaluated, pvars, hvars, flow, state_name, ctx, visits, last_asked_var,
                   use_llm, guard, eret, buffer, target, produced>>

\* mutant: load never finds its key
Loadable_Never(c, var) == FALSE

\* lines 377-381: the file exists, json.loads returns a dict, the key is in it
Loadable(c, var) == c.kind = "object" /\ var \in DOMAIN c.data

\* lines 375-383
Exec_Load ==
    /\ AtAction("load")
    /\ ctx' = IF Loadable(store, Act.var)
              THEN CtxSet(ctx, Act.var, JStr(store.data[Act.var]))
              ELSE ctx
    /\ log' = Append(log, Ev("load", Act.var, 0))
    /\ estack' = Advance
    /\ UNCHANGED <<invoked_in, ran_away, entered, parsed, tree, evaluated, store, pvars, hvars, flow, state_name, visits, last_asked_var,
                   use_llm, epc, guard, eret, buffer, target, err, produced>>

_exec_actions ==
    \/ Exec_Reply \/ Exec_Set \/ Exec_Save \/ Exec_Load
    \/ Exec_AskFlush \/ Exec_AskSkip \/ Exec_AskAnswer \/ Exec_AskSuspend
    \/ Exec_IfGoto \/ Exec_Goto
    \/ Exec_ChainCond \/ Exec_ChainElse \/ Exec_ChainRet
    \/ Exec_ListEnd


----------------------------------------------------------------------------
(* Engine.run_iter *)

\* mutant: the ceiling is never found exceeded
GuardExceeded_Never(g) == FALSE

\* line 398: if guard > 2000
GuardExceeded(g) == g > GuardLimit

\* lines 396-399: the guard has passed its ceiling
Run_Runaway ==
    /\ epc = "loop"
    /\ GuardExceeded(guard + 1)
    /\ guard' = guard + 1
    /\ epc' = "error"
    /\ err' = "RuntimeError"
    /\ ran_away' = TRUE
    /\ UNCHANGED <<invoked_in, entered, parsed, tree, evaluated, store, pvars, hvars, gvars, flow, state_name, ctx, visits,
                   last_asked_var, use_llm, estack, eret, buffer, target>>

\* lines 396-406: a state visit starts: the visit is counted, the marker
\* cleared, and the state's actions are executed with an empty buffer
\* (target is assigned when _exec_actions returns; it is cleared here)
Run_Visit ==
    /\ epc = "loop"
    /\ ~GuardExceeded(guard + 1)
    /\ guard' = guard + 1
    /\ visits' = CtxSet(visits, state_name, VisitsGet(state_name) + 1)
    /\ last_asked_var' = None
    /\ buffer' = <<>>
    /\ estack' = <<Frame(StateOf(state_name).actions)>>
    /\ eret' = None
    /\ target' = None
    /\ log' = <<>>
    /\ epc' = "exec"
    /\ UNCHANGED <<invoked_in, ran_away, entered, parsed, tree, evaluated, store, pvars, hvars, flow, state_name, ctx, use_llm, err, produced>>

\* lines 408-410: the rest of the buffer is yielded
Run_Flush ==
    /\ epc = "flush"
    /\ Deliver(buffer)
    /\ epc' = "classify"
    /\ UNCHANGED <<invoked_in, ran_away, entered, parsed, tree, evaluated, store, pvars, gvars, flow, state_name, ctx, visits, last_asked_var,
                   use_llm, guard, estack, eret, buffer, target, err,
                   host, hpc, steps, inputs, called, pending, chat, await_var>>

\* line 413: the classifier is consulted
ClassifierConsulted == target = None /\ use_llm /\ last_asked_var \notin {None, ""}

\* llm_agent.py 39-42, 80-84: a candidate (a state other than the excluded
\* one) or None
Suggestions == (StateNames \ {state_name}) \cup {None}

\* mutant: no suggestion is followed
SuggestionValid_Never(sug) == FALSE

\* line 420: the suggestion is followed
SuggestionValid(sug) == sug /= None /\ sug \in StateNames /\ sug /= state_name

\* line 421: the notice line (its literal text is Chinese in the source)
Notice(sug) == "(LLM intent: " \o sug \o ")"

\* lines 412-422: the classifier's suggestion, when valid, becomes the target
Run_Classify ==
    /\ epc = "classify"
    /\ ClassifierConsulted
    /\ \E sug \in Suggestions :
          /\ log' = Append(log, Ev("classify", sug, 0))
          /\ IF SuggestionValid(sug)
             THEN /\ Deliver(<<Notice(sug)>>)
                  /\ produced' = Append(produced, Notice(sug))
                  /\ target' = sug
             ELSE UNCHANGED <<invoked_in, ran_away, entered, parsed, tree, evaluated, store, out, msgs, produced, target>>
    /\ epc' = "fallback"
    /\ UNCHANGED <<invoked_in, ran_away, entered, parsed, tree, evaluated, store, pvars, flow, state_name, ctx, visits, last_asked_var, use_llm,
                   guard, estack, eret, buffer, err,
                   host, hpc, steps, inputs, called, pending, chat, await_var>>

\* line 413, condition false
Run_NoClassify ==
    /\ epc = "classify"
    /\ ~ClassifierConsulted
    /\ epc' = "fallback"
    /\ UNCHANGED <<invoked_in, ran_away, entered, parsed, tree, evaluated, store, pvars, hvars, gvars, flow, state_name, ctx, visits,
                   last_asked_var, use_llm, guard, estack, eret, buffer, target, err>>

\* mutant: the fallback rule overrides a target already found
FallbackApplies_Overriding ==
    fallback_state /= None /\ VisitsGet(state_name) >= 2

\* line 425: the repeat-visit rule applies
FallbackApplies ==
    target = None /\ fallback_state /= None /\ VisitsGet(state_name) >= 2

\* lines 424-426
Run_Fallback ==
    /\ epc = "fallback"
    /\ FallbackApplies
    /\ target' = fallback_state
    /\ log' = Append(log, Ev("fallback", fallback_state, 0))
    /\ epc' = "transition"
    /\ UNCHANGED <<invoked_in, ran_away, entered, parsed, tree, evaluated, store, pvars, hvars, flow, state_name, ctx, visits, last_asked_var,
                   use_llm, guard, estack, eret, buffer, err, produced>>

\* line 425, condition false
Run_NoFallback ==
    /\ epc = "fallback"
    /\ ~FallbackApplies
    /\ epc' = "transition"
    /\ UNCHANGED <<invoked_in, ran_away, entered, parsed, tree, evaluated, store, pvars, hvars, gvars, flow, state_name, ctx, visits,
                   last_asked_var, use_llm, guard, estack, eret, buffer, target, err>>

\* mutant: any name passes for a state of the flow
TargetKnown_Any(t) == TRUE

\* line 429: target in self.flow.states
TargetKnown(t) == t \in StateNames

\* lines 428-432: the target becomes the current state
Run_Transition ==
    /\ epc = "transition"
    /\ target /= None /\ TargetKnown(target)
    /\ state_name' = target
    /\ entered' = CtxSet(entered, target, EnteredGet(target) + 1)
    /\ epc' = "loop"
    /\ UNCHANGED <<invoked_in, ran_away, parsed, tree, evaluated, store, pvars, hvars, gvars, flow, ctx, visits, last_asked_var,
                   use_llm, guard, estack, eret, buffer, target, err>>

\* lines 428-430: the target is not a state of the flow
Run_KeyError ==
    /\ epc = "transition"
    /\ target /= None /\ ~TargetKnown(target)
    /\ epc' = "error"
    /\ err' = "KeyError"
    /\ UNCHANGED <<invoked_in, ran_away, entered, parsed, tree, evaluated, store, pvars, hvars, gvars, flow, state_name, ctx, visits,
                   last_asked_var, use_llm, guard, estack, eret, buffer, target>>

\* line 434: no target, the run halts
Run_Halt ==
    /\ epc = "transition"
    /\ target = None
    /\ epc' = "halted"
    /\ UNCHANGED <<invoked_in, ran_away, entered, parsed, tree, evaluated, store, pvars, hvars, gvars, flow, state_name, ctx, visits,
                   last_asked_var, use_llm, guard, estack, eret, buffer, target, err>>

run_iter ==
    \/ Run_Runaway \/ Run_Visit \/ _exec_actions \/ Run_Flush
    \/ Run_Classify \/ Run_NoClassify \/ Run_Fallback \/ Run_NoFallback
    \/ Run_Transition \/ Run_KeyError \/ Run_Halt

----------------------------------------------------------------------------
(* The hosts: cli.run_cmd and webapp.SessionState.step *)

\* cli.py 45-48: the engine is run once, with an ask_fn that blocks
Cli_Run ==
    /\ host = "cli" /\ hpc = "idle" /\ steps = 0
    /\ hpc' = "running"
    /\ steps' = 1
    /\ epc' = "loop"
    /\ guard' = 0
    /\ err' = ""
    /\ invoked_in' = epc
    /\ UNCHANGED <<ran_away, entered, parsed, tree, evaluated, store, pvars, gvars, flow, state_name, ctx, visits, last_asked_var,
                   use_llm, estack, eret, buffer, target,
                   host, inputs, called, pending, msgs, chat, await_var, out>>

\* webapp.py 71-91: step(user_text): api_start passes None, api_send the
\* user's text; a fresh ask_fn is installed and run_iter is invoked anew
Web_Step ==
    /\ host = "web" /\ hpc = "idle" /\ steps < MaxSteps
    /\ \E user_text \in (IF steps = 0 THEN {None} ELSE Answers) :
          /\ chat' = IF user_text /= None
                     THEN Append(chat, [role |-> "user", text |-> user_text])
                     ELSE chat
          /\ inputs' = IF user_text /= None THEN <<user_text>> ELSE <<>>
    /\ msgs' = <<>>
    /\ called' = 0
    /\ pending' = <<>>
    /\ hpc' = "running"
    /\ steps' = steps + 1
    /\ epc' = "loop"
    /\ guard' = 0
    /\ err' = ""
    /\ invoked_in' = epc
    /\ UNCHANGED <<ran_away, entered, parsed, tree, evaluated, store, pvars, gvars, flow, state_name, ctx, visits, last_asked_var,
                   use_llm, estack, eret, buffer, target, host, await_var, out>>

\* webapp.py 103-109: the first message is dropped when it repeats the last
\* assistant message of the chat
Dedup(ms) ==
    IF /\ ms /= <<>>
       /\ chat /= <<>>
       /\ chat[Len(chat)].role = "assistant"
       /\ ms[1] = chat[Len(chat)].text
    THEN Tail(ms) ELSE ms

\* webapp.py 112-113
AsAssistant(ms) == [k \in 1..Len(ms) |-> [role |-> "assistant", text |-> ms[k]]]

\* webapp.py 93-119: run_iter has returned or NeedMoreInput has been raised
Web_StepEnd ==
    /\ host = "web" /\ hpc = "running"
    /\ epc \in {"halted", "suspended"}
    /\ LET ms == IF epc = "suspended" THEN Append(msgs, pending[2]) ELSE msgs
       IN /\ msgs' = Dedup(ms)
          /\ chat' = chat \o AsAssistant(Dedup(ms))
    /\ await_var' = IF epc = "suspended" THEN pending[1] ELSE None
    /\ out' = IF epc = "suspended" THEN Append(out, pending[2]) ELSE out
    /\ hpc' = "idle"
    /\ UNCHANGED <<invoked_in, ran_away, entered, parsed, tree, evaluated, store, pvars, evars, gvars, host, steps, inputs, called, pending>>

\* webapp.py 118: the "ended" field of the response of step()
Ended == await_var = None /\ msgs = <<>> /\ state_name \notin StateNames

\* step() has returned its response
Responded == host = "web" /\ hpc = "idle" /\ steps > 0 /\ epc \in {"halted", "suspended"}

\* webapp.py 90-93: any other exception leaves step(); the session stays
Web_StepRaise ==
    /\ host = "web" /\ hpc = "running"
    /\ epc = "error"
    /\ hpc' = "idle"
    /\ UNCHANGED <<invoked_in, ran_away, entered, parsed, tree, evaluated, store, pvars, evars, gvars, host, steps, inputs, called, pending,
                   msgs, chat, await_var, out>>

\* parse is not running
ParserOff ==
    /\ lines = <<>>
    /\ i = 1
    /\ ppc = "off"
    /\ pstack = <<>>
    /\ ret = <<>>
    /\ prog = <<>>
    /\ flow_name = ""
    /\ st_name = ""
    /\ perr = ""
    /\ parsed = NotYet

\* Engine.__init__ (runtime.py 277-300) as cli.py 45 and webapp.py 60-69
\* call it, and SessionState.__init__ (webapp.py 40-48)
Init ==
    /\ ParserOff
    /\ flow \in Flows
    /\ host \in {"cli", "web"}
    /\ use_llm \in (IF flow \in WithClassifier THEN BOOLEAN ELSE {FALSE})
    /\ ctx \in (IF host = "cli" THEN InitialContexts ELSE {<<>>})
    /\ state_name = flow[1].name
    /\ visits = <<>>
    /\ entered = CtxSet(<<>>, state_name, 1)
    /\ ran_away = FALSE
    /\ invoked_in = ""
    /\ last_asked_var = None
    /\ epc = "off"
    /\ guard = 0
    /\ estack = <<>>
    /\ eret = None
    /\ buffer = <<>>
    /\ target = None
    /\ err = ""
    /\ hpc = "idle"
    /\ steps = 0
    /\ inputs = <<>>
    /\ called = 0
    /\ pending = <<>>
    /\ msgs = <<>>
    /\ chat = <<>>
    /\ await_var = None
    /\ out = <<>>
    /\ produced = <<>>
    /\ log = <<>>
    /\ store \in (IF flow = StoreFlow THEN StoreContents ELSE {Missing})
    /\ tree = <<>> /\ evaluated = Unset

Next ==
    \/ Cli_Run \/ Web_Step \/ Web_StepEnd \/ Web_StepRaise
    \/ run_iter

Spec == Init /\ [][Next]_vars

\* the evaluator on its own: one expression, one context, one evaluation
EvalInit ==
    /\ ParserOff
    /\ flow = <<>> /\ state_name = "" /\ visits = <<>>
    /\ last_asked_var = "" /\ use_llm = FALSE /\ epc = "off" /\ guard = 0
    /\ estack = <<>> /\ eret = "" /\ buffer = <<>> /\ target = "" /\ err = ""
    /\ host = "" /\ hpc = "off" /\ steps = 0 /\ inputs = <<>> /\ called = 0
    /\ pending = <<>> /\ msgs = <<>> /\ chat = <<>> /\ await_var = ""
    /\ out = <<>> /\ produced = <<>> /\ log = <<>>
    /\ store = Missing
    /\ entered = <<>>
    /\ ran_away = FALSE
    /\ invoked_in = ""
    /\ ctx \in EvalContexts
    /\ tree \in Exprs
    /\ evaluated = Unset

\* _eval_bool(expr, ctx), as if_chain calls it (line 341)
Eval_Bool ==
    /\ evaluated.kind = "unset"
    /\ evaluated' = [kind |-> "bool", r |-> _eval_bool(tree, ctx)]
    /\ UNCHANGED <<invoked_in, ran_away, entered, parsed, pvars, evars, hvars, gvars, store, tree>>

\* _eval_expr(expr, ctx), as set_expr calls it (line 318)
Eval_Value ==
    /\ evaluated.kind = "unset"
    /\ evaluated' = [kind |-> "value", r |-> _eval_value_node(tree, ctx)]
    /\ UNCHANGED <<invoked_in, ran_away, entered, parsed, pvars, evars, hvars, gvars, store, tree>>

EvalNext == Eval_Bool \/ Eval_Value

SpecEval == EvalInit /\ [][EvalNext]_vars

----------------------------------------------------------------------------
(* Properties of the engine *)

\* the events of the current visit that satisfy P
HasEv(P(_)) == \E k \in 1..Len(log) : P(log[k])

\* a goto, or an if_goto whose comparison held
IsJump(e) == e.ev = "goto" \/ (e.ev = "if_goto" /\ e.b = 1)

\* an action of some action list was executed
IsActionEv(e) ==
    e.ev \in {"reply", "set", "ask_skip", "ask_call", "if_goto", "goto",
              "cond", "else", "no_branch", "save", "load"}

IsClassifyEv(e) == e.ev = "classify"

IsFollowedEv(e) == e.ev = "classify" /\ e.a /= None

IsFallbackEv(e) == e.ev = "fallback"

\* the visit is being resolved or has been resolved
Resolving == epc \in {"transition", "halted"}

\* C1: the next state is resolved in strict priority order: an explicit
\* target of the action list is the target and then neither the classifier
\* nor the fallback rule has been consulted; the classifier has been
\* consulted only without an explicit target; the fallback rule has been
\* applied only when neither of them gave a target; there is no target (the
\* run halts) only when none of the three applies.
C1_ResolutionPriority ==
    Resolving =>
       /\ \A k \in 1..Len(log) :
             IsJump(log[k]) =>
                /\ target = log[k].a
                /\ ~HasEv(IsClassifyEv)
                /\ ~HasEv(IsFallbackEv)
       /\ HasEv(IsClassifyEv) => ~HasEv(IsJump)
       /\ HasEv(IsFallbackEv) => ~HasEv(IsJump) /\ ~HasEv(IsFollowedEv)
       /\ (target = None) <=>
             /\ ~HasEv(IsJump)
             /\ ~HasEv(IsFollowedEv)
             /\ ~(fallback_state /= None /\ VisitsGet(state_name) >= 2)
       /\ (epc = "halted") => (target = None)

\* an explicit target wins although the classifier is configured, an ask
\* was answered in the visit, and the fallback rule's condition holds
C1_Witness ==
    /\ epc = "transition"
    /\ HasEv(IsJump)
    /\ use_llm /\ last_asked_var /= None
    /\ fallback_state /= None /\ VisitsGet(state_name) >= 2
    /\ target /= fallback_state

\* the texts of the assistant's messages of the chat
AssistantTexts ==
    LET a == SelectSeq(chat, LAMBDA m : m.role = "assistant")
    IN [k \in 1..Len(a) |-> a[k].text]

\* C2: across an ask suspension and resume every reply executed before the
\* suspended ask is emitted exactly once: for greet/done, once the answer
\* Ann has been supplied and the run has halted, the assistant's output is
\* Hello there, the prompt, Nice to meet you, Ann.
C2_RepliesOnceAcrossResume ==
    (/\ flow = GreetFlow /\ host = "web"
     /\ hpc = "idle" /\ steps = 2 /\ epc = "halted") =>
        AssistantTexts = <<"Hello there", "What is your name?", "Nice to meet you, Ann">>

\* C7: once a goto or a satisfied if_goto has been executed, at any depth,
\* no later action of the visit is executed, and its target is the visit's
\* explicit target.
C7_GotoShortCircuits ==
    \A k \in 1..Len(log) :
       IsJump(log[k]) =>
          /\ \A j \in (k + 1)..Len(log) : ~IsActionEv(log[j])
          /\ epc \in {"flush", "classify", "fallback"} => target = log[k].a

\* a goto two branches deep has become the target, with actions left behind
\* it in its own list and in both enclosing lists
C7_Witness ==
    /\ epc = "classify"
    /\ \E k \in 1..Len(log) :
          log[k].ev = "goto" /\ log[k].d = 3 /\ target = log[k].a

IsCond(e, res) == e.ev = "cond" /\ e.a = res

\* C8: an if_chain evaluates its conditions in declared order and runs the
\* list of exactly the first true branch; after a true condition no later
\* condition of the chain is evaluated and no else list runs; a false
\* condition runs nothing and is followed by the next condition or, after
\* the last, by the else list when present, and otherwise by whatever
\* follows the chain.
C8_FirstTrueBranch ==
    \A k \in 1..Len(log) :
       LET e == log[k]
           later == {j \in (k + 1)..Len(log) : log[j].d <= e.d}
           nxt == log[CHOOSE j \in later : \A h \in later : j <= h]
       IN /\ IsCond(e, "T") =>
                /\ k < Len(log) => log[k + 1].d = e.d + 1
                /\ (later /= {} /\ nxt.d = e.d) =>
                      /\ nxt.ev \notin {"else", "no_branch"}
                      /\ nxt.ev = "cond" => nxt.b = 1
          /\ IsCond(e, "F") =>
                (k < Len(log) =>
                    /\ log[k + 1].d = e.d
                    /\ \/ log[k + 1].ev = "cond" /\ log[k + 1].b = e.b + 1
                       \/ log[k + 1].ev \in {"else", "no_branch"})
          /\ (e.ev = "cond" /\ e.b > 1) =>
                /\ IsCond(log[k - 1], "F")
                /\ log[k - 1].b = e.b - 1 /\ log[k - 1].d = e.d
          /\ e.ev \in {"else", "no_branch"} =>
                /\ k > 1
                /\ IsCond(log[k - 1], "F") /\ log[k - 1].d = e.d
          /\ e.ev = "else" => (k < Len(log) => log[k + 1].d = e.d + 1)
          /\ e.ev = "no_branch" => (k < Len(log) => log[k + 1].d <= e.d)

\* the second branch of a chain fired, its third condition (which cannot be
\* evaluated) raised nothing, a later chain matched nothing, and the run
\* halted normally
C8_Witness ==
    /\ epc = "halted" /\ err = ""
    /\ \E k \in 1..Len(log) : IsCond(log[k], "T") /\ log[k].b = 2
    /\ \E k \in 1..Len(log) : log[k].ev = "no_branch"
    /\ \E k \in 1..Len(log) : log[k].ev = "reply" /\ log[k].a = "post"

\* the step is the collaborator's call for the variable of the ask
CollaboratorCalled ==
    /\ log' = Append(log, Ev("ask_call", Act.var, 0))
    /\ host = "web" => called' = called + 1
    /\ host = "cli" => out' = Append(out, Act.prompt)

\* C9: an ask whose variable is bound does not invoke the collaborator and
\* leaves the context unchanged; the collaborator is invoked exactly when
\* the variable is absent, and its answer is stored under that variable
\* only.
C9_AskOnlyWhenAbsent ==
    [][(AtAction("ask") /\ ETop.sub = "asking") =>
          IF Act.var \in DOMAIN ctx
          THEN /\ ctx' = ctx
               /\ ~CollaboratorCalled
               /\ out' = out /\ called' = called /\ epc' /= "suspended"
          ELSE /\ CollaboratorCalled
               /\ epc' /= "suspended" =>
                     /\ Act.var \in DOMAIN ctx'
                     /\ ctx'[Act.var] \in Answers
                     /\ \A v \in DOMAIN ctx : ctx'[v] = ctx[v]
                     /\ DOMAIN ctx' = DOMAIN ctx \cup {Act.var}
               /\ epc' = "suspended" => ctx' = ctx]_vars

\* in one visit an ask of a bound variable was skipped, its value kept, and
\* an ask of an absent variable was answered
C9_Witness ==
    /\ \E k \in 1..Len(log) :
          log[k].ev = "ask_skip" /\ log[k].a = "v" /\ CtxGet(ctx, "v") = "a"
    /\ \E k \in 1..Len(log) : log[k].ev = "ask_call" /\ log[k].a = "w"
    /\ "w" \in DOMAIN ctx

\* the lines of the output that are not prompts
Emitted == SelectSeq(out, LAMBDA x : x \notin Prompts)

\* the collaborator is about to be called
AboutToAsk == AtAction("ask") /\ ETop.sub = "asking" /\ AskNeeded(Act.var)

\* C10: when the collaborator is called, every reply executed before has
\* been delivered and none is buffered; at all times the lines delivered are
\* the first lines produced, in the order of their production.
C10_FlushBeforeAsk ==
    /\ AboutToAsk => (buffer = <<>> /\ Emitted = produced)
    /\ Len(Emitted) <= Len(produced)
    /\ Emitted = SubSeq(produced, 1, Len(Emitted))

\* a reply of this visit precedes an ask that calls the collaborator
C10_Witness ==
    /\ AboutToAsk
    /\ log /= <<>> /\ log[Len(log)].ev = "reply"
    /\ out /= <<>> /\ out[Len(out)] = log[Len(log)].a

\* C11: two states that goto each other never run forever: every visit
\* counts against the guard, no visit is executed beyond the ceiling of
\* GuardLimit visits of one run_iter call, and the run of such a flow ends
\* neither by halting nor by the missing-target error but by the
\* RuntimeError raised when the guard passes the ceiling.
C11_RunawayGuard ==
    /\ [](epc = "exec" => guard <= GuardLimit)
    /\ [](flow = LoopFlow =>
             /\ epc /= "halted"
             /\ err \in {"", "RuntimeError"}
             /\ (epc = "error") <=> (err = "RuntimeError" /\ guard = GuardLimit + 1))
    /\ [][(epc = "loop" /\ epc' /= "loop") => guard' = guard + 1]_vars

\* the two-state loop has been stopped after GuardLimit visits
C11_Witness ==
    /\ flow = LoopFlow
    /\ epc = "error" /\ err = "RuntimeError"
    /\ VisitsGet("p") + VisitsGet("q") = GuardLimit
    /\ steps = 1

\* a jump of the visit names something that is not a state of the flow
JumpedToUnknown == \E k \in 1..Len(log) : IsJump(log[k]) /\ log[k].a \notin StateNames

\* C12: a goto or if_goto to a name that is not a state of the flow ends
\* the run with the missing-target error: the name is the target when the
\* visit is resolved, neither the classifier nor the fallback rule is
\* consulted, the run does not halt normally, and the current-state pointer
\* never takes the unknown name.
C12_MissingTargetIsFatal ==
    /\ [](state_name \in StateNames)
    /\ [](JumpedToUnknown =>
             /\ ~HasEv(IsClassifyEv) /\ ~HasEv(IsFallbackEv)
             /\ epc /= "halted"
             /\ epc \in {"flush", "classify", "fallback", "transition"}
                   => target \notin StateNames \cup {None}
             /\ epc = "error" => err = "KeyError")
    /\ [][(epc = "transition" /\ JumpedToUnknown) =>
             (epc' = "error" /\ err' = "KeyError" /\ state_name' = state_name)]_vars

\* a satisfied if_goto to an unknown state has ended the run with KeyError
\* although the classifier and the fallback rule would both apply
C12_Witness ==
    /\ epc = "error" /\ err = "KeyError"
    /\ \E k \in 1..Len(log) : log[k].ev = "if_goto" /\ log[k].b = 1 /\ log[k].a = "ghost"
    /\ use_llm /\ last_asked_var /= None
    /\ fallback_state /= None /\ VisitsGet(state_name) >= 2
    /\ state_name = "s"

----------------------------------------------------------------------------
(* Engine.__init__ on the Program parse has returned *)

\* the flow names an engine may be asked for (cli --flow; webapp asks for main)
RequestedFlows == {"main", "f2", "nope"}

\* program.flows[flow_name]
ProgFlow(fname) == prog[CHOOSE k \in 1..Len(prog) : prog[k].name = fname]

\* line 281: flow_name in program.flows
FlowKnown(fname) == \E k \in 1..Len(prog) : prog[k].name = fname

\* mutant: the entry state is the state inserted last
EntryState_Last(states) == states[Len(states)].name

\* line 286: next(iter(self.flow.states.keys()))
EntryState(states) == states[1].name

\* the constructor has not been called on the returned Program
Constructing == ppc = "done" /\ epc = "off"

\* the constructor raises: no field of an engine exists
ConstructorRaises(fname, e) ==
    /\ epc' = "error"
    /\ err' = e
    /\ log' = <<Ev("construct", fname, 0)>>
    /\ UNCHANGED <<invoked_in, ran_away, entered, parsed, tree, evaluated, store, pvars, hvars, flow, state_name, ctx, visits, last_asked_var,
                   use_llm, guard, estack, eret, buffer, target, produced>>

\* lines 281-282: the flow name is not in the program
Engine_NoSuchFlow ==
    /\ Constructing
    /\ \E fname \in RequestedFlows :
          /\ ~FlowKnown(fname)
          /\ ConstructorRaises(fname, "KeyError")

\* lines 283-285: the flow has no state
Engine_EmptyFlow ==
    /\ Constructing
    /\ \E fname \in RequestedFlows :
          /\ FlowKnown(fname)
          /\ ProgFlow(fname).states = <<>>
          /\ ConstructorRaises(fname, "ValueError")

\* lines 283-300: the engine is created at the flow's entry state
Engine_Created ==
    /\ Constructing
    /\ \E fname \in RequestedFlows :
          /\ FlowKnown(fname)
          /\ ProgFlow(fname).states /= <<>>
          /\ flow' = ProgFlow(fname).states
          /\ state_name' = EntryState(ProgFlow(fname).states)
          /\ log' = <<Ev("construct", fname, 0)>>
    /\ ctx' = <<>>
    /\ visits' = <<>>
    /\ entered' = CtxSet(<<>>, state_name', 1)
    /\ last_asked_var' = None
    /\ epc' = "constructed"
    /\ UNCHANGED <<invoked_in, ran_away, parsed, tree, evaluated, store, pvars, hvars, use_llm, guard, estack, eret, buffer, target,
                   err, produced>>

ConstructNext ==
    \/ ParseNext
    \/ Engine_NoSuchFlow \/ Engine_EmptyFlow \/ Engine_Created

\* parse, then Engine(program, flow_name)
SpecConstruct == ParseInit /\ [][ConstructNext]_vars

\* the first state line of the flow's last declaration in the source
FirstStateLine(fname) ==
    CHOOSE j \in (LastFlowLine(fname) + 1)..n :
        /\ StartsWithState(Strip(lines[j]))
        /\ \A h \in (LastFlowLine(fname) + 1)..(j - 1) : ~StartsWithState(Strip(lines[h]))

\* C13: Engine construction fails, and no engine exists, when the requested
\* flow name is not in the program or the flow has no state; otherwise the
\* engine stands at the first state inserted into the flow, which is the
\* state of the first state line of the flow's declaration.
C13_ConstructionChecks ==
    (ppc = "done" /\ epc /= "off") =>
        LET req == log[1].a
            ok == FlowKnown(req) /\ ProgFlow(req).states /= <<>>
        IN /\ (epc = "constructed") <=> ok
           /\ ~ok =>
                 /\ epc = "error" /\ err \in {"KeyError", "ValueError"}
                 /\ flow = <<>> /\ state_name = ""
           /\ ok =>
                 /\ flow = ProgFlow(req).states
                 /\ state_name = flow[1].name
                 /\ state_name = NameOf(Strip(lines[FirstStateLine(req)]))

\* an engine stands at the first of two states of its flow
C13_Witness ==
    /\ ppc = "done" /\ epc = "constructed"
    /\ Len(flow) = 2 /\ state_name = "a" /\ flow[2].name = "b"

\* construction has failed for a flow with no state
C13_WitnessEmpty ==
    /\ ppc = "done" /\ epc = "error" /\ err = "ValueError"

----------------------------------------------------------------------------
(* Properties of save and load *)

\* C14: a save never fails the run because of what the store held: a
\* missing file, text that does not parse and parseable content that is not
\* an object are all taken for an empty object, and an object holding the
\* saved variable is written back.
C14_SaveNeverFails ==
    [][AtAction("save") =>
          /\ epc' /= "error"
          /\ store'.kind = "object"
          /\ Act.var \in DOMAIN store'.data
          /\ store'.data[Act.var] = JS(CtxGet(ctx, Act.var))]_vars

\* C15: a load from a missing or unparseable store, from a store that is
\* not an object, or from an object without the key leaves the whole context
\* unchanged and does not fail the run; with the key present exactly that
\* variable takes the string form of the stored value; the store itself is
\* never changed.
C15_LoadFrame ==
    [][AtAction("load") =>
          /\ epc' = epc /\ err' = err
          /\ store' = store
          /\ IF store.kind = "object" /\ Act.var \in DOMAIN store.data
             THEN /\ DOMAIN ctx' = DOMAIN ctx \cup {Act.var}
                  /\ ctx'[Act.var] = JStr(store.data[Act.var])
                  /\ \A v \in DOMAIN ctx \ {Act.var} : ctx'[v] = ctx[v]
             ELSE ctx' = ctx]_vars

\* a load has replaced the value of w by the string form of a stored number
\* while v kept its value
C15_Witness ==
    /\ flow = StoreFlow /\ host = "cli"
    /\ log /= <<>> /\ log[Len(log)].ev = "load" /\ log[Len(log)].a = "w"
    /\ DOMAIN ctx = {"v", "w"}
    /\ ctx["w"] = "5" /\ ctx["v"] = "a"
    /\ produced = <<>>

----------------------------------------------------------------------------
(* The evaluator: whitelist and comparisons *)

\* the evaluation raised
EvalRaised ==
    \/ evaluated.kind = "bool" /\ evaluated.r = "Err"
    \/ evaluated.kind = "value" /\ evaluated.r = VErr

RECURSIVE ContainsForbidden(_)
\* the tree holds, anywhere in it, a call of a name outside the whitelist, a
\* subscript, an attribute access, or a node or operator outside the grammar
ContainsForbidden(node) ==
    CASE node.k \in {"Constant", "Name"} -> FALSE
      [] node.k = "Call" ->
            \/ node.fn \notin _FUNC_WHITELIST
            \/ \E j \in 1..Len(node.args) : ContainsForbidden(node.args[j])
            \/ \E j \in 1..Len(node.keywords) : ContainsForbidden(node.keywords[j])
      [] node.k = "BinOp" ->
            \/ node.op \notin AllowedBinOps
            \/ ContainsForbidden(node.l)
            \/ ContainsForbidden(node.r)
      [] node.k = "BoolOp" ->
            \/ node.op \notin {"and", "or"}
            \/ \E j \in 1..Len(node.values) : ContainsForbidden(node.values[j])
      [] node.k = "Not" -> ContainsForbidden(node.operand)
      [] node.k = "Compare" ->
            \/ \E j \in 1..Len(node.ops) : node.ops[j] \notin CompareOps
            \/ ContainsForbidden(node.left)
            \/ \E j \in 1..Len(node.comparators) : ContainsForbidden(node.comparators[j])
      [] OTHER -> TRUE

\* and / or and a chain of comparisons may stop before their last operand
MayStopEarly(node) ==
    \/ node.k = "BoolOp"
    \/ node.k = "Not" /\ node.operand.k \in {"BoolOp", "Compare"}
    \/ node.k = "Compare" /\ Len(node.ops) > 1

\* C16: the evaluator is whitelist-only: evaluating an expression that
\* contains a call of a name outside the whitelist, a subscript, an attribute
\* access or any other syntax outside the grammar raises; it never yields a
\* value.  (Stated for the expressions all of whose parts are evaluated: no
\* and / or, no chain of comparisons.)
C16_WhitelistOnly ==
    (evaluated.kind /= "unset" /\ ContainsForbidden(tree) /\ ~MayStopEarly(tree))
        => EvalRaised

\* the relation op on two integers
Rel(op, x, y) ==
    CASE op = "==" -> x = y [] op = "!=" -> x /= y
      [] op = ">" -> x > y  [] op = "<" -> x < y
      [] op = ">=" -> x >= y [] op = "<=" -> x <= y

\* what one comparison has to give: on the numbers when both operands
\* coerce, else on the operands' strings in lexicographic order
PairHolds(a, op, b) ==
    IF _to_number_maybe(a) /= NoNum /\ _to_number_maybe(b) /= NoNum
    THEN Rel(op, _to_number_maybe(a), _to_number_maybe(b))
    ELSE Rel(op, StrRank(PyStr(a)), StrRank(PyStr(b)))

\* what a comparison a OP1 b OP2 c ... has to give in context c: false at
\* the first failing pair, the operands behind it never evaluated
ChainGives(node, c) ==
    LET k == Len(node.ops)
        vals == [j \in 1..(k + 1) |->
                    IF j = 1 THEN _eval_value_node(node.left, c)
                    ELSE _eval_value_node(node.comparators[j - 1], c)]
        stops == {j \in 1..k :
                    \/ vals[j + 1] = VErr
                    \/ vals[j] /= VErr /\ ~PairHolds(vals[j], node.ops[j], vals[j + 1])}
        first == CHOOSE j \in stops : \A j2 \in stops : j <= j2
    IN CASE vals[1] = VErr -> "Err"
         [] stops = {} -> "T"
         [] vals[first + 1] = VErr -> "Err"
         [] OTHER -> "F"

\* a comparison of the operators the evaluator knows has been evaluated
ComparisonEvaluated ==
    /\ evaluated.kind = "bool"
    /\ tree.k = "Compare"
    /\ \A j \in 1..Len(tree.ops) : tree.ops[j] \in CompareOps

\* C17: a comparison compares numerically when both operands coerce to
\* numbers and as strings, lexicographically, otherwise ("10" > "9" and
\* "b" > "a" are true), and a chain a OP1 b OP2 c is the conjunction of its
\* pairs from left to right, false at the first failing pair without
\* evaluating the operands behind it
C17_ComparisonChain ==
    /\ ComparisonEvaluated => evaluated.r = ChainGives(tree, ctx)
    /\ (ComparisonEvaluated /\ tree \in
            {Compare(Const(VStr("10")), <<">">>, <<Const(VStr("9"))>>),
             Compare(Const(VStr("b")), <<">">>, <<Const(VStr("a"))>>)})
        => evaluated.r = "T"

\* 2 < 1 > open("x") has been found false: the first pair failed and the
\* call behind it, which raises when evaluated, was not evaluated
C17_Witness ==
    /\ ComparisonEvaluated
    /\ tree = Compare(Const(VNum(2)), <<"<", ">">>, <<Const(VNum(1)), OpenCall>>)
    /\ evaluated.r = "F"

\* "10" > "9" has been found true
C17_WitnessNumeric ==
    /\ ComparisonEvaluated
    /\ tree = Compare(Const(VStr("10")), <<">">>, <<Const(VStr("9"))>>)
    /\ evaluated.r = "T"

----------------------------------------------------------------------------
(* The parser: blank and comment lines *)

\* C18: blank lines and lines starting with # are skipped everywhere: a
\* source that parses, with one blank or comment line put between two of
\* its lines, parses again and gives the same Program
C18_SkippedEverywhere ==
    (parsed.kind = "program" /\ ParseTerminated)
        => (ppc = "done" /\ prog = parsed.prog)

----------------------------------------------------------------------------
(* The visit counters *)

\* C19: the visit counter of a state is the number of times the engine has
\* entered it (one for the entry state at construction, one per transition
\* into it); resuming a visit that was suspended on an ask does not count
\* again, so no state has been visited more often than it has been entered.
\* (An entry is counted as a visit when the visit begins, hence at most.)
C19_VisitsCountEntries ==
    \A s \in DOMAIN visits : visits[s] <= EnteredGet(s)

----------------------------------------------------------------------------
(* The classifier and the last-asked marker *)

\* the ask collaborator was called
IsAskCallEv(e) == e.ev = "ask_call"

\* C20: the classifier is consulted at the end of a visit only if during
\* that visit an ask obtained an answer from the ask collaborator; an ask
\* skipped because its variable is bound does not make the visit eligible
C20_ClassifierNeedsAnswer ==
    HasEv(IsClassifyEv) => HasEv(IsAskCallEv)

----------------------------------------------------------------------------
(* The classifier's suggestion *)

\* the classifier has just returned: the step from line 413 to line 424
ClassifierReturned ==
    /\ epc = "classify" /\ epc' = "fallback"
    /\ Len(log') = Len(log) + 1 /\ log'[Len(log')].ev = "classify"

----------------------------------------------------------------------------
(* The runaway ceiling over the whole run *)

RECURSIVE SumOver(_, _)
\* the sum of the counters of the states in names
SumOver(f, names) ==
    IF names = {} THEN 0
    ELSE LET x == CHOOSE x \in names : TRUE
         IN f[x] + SumOver(f, names \ {x})

\* the state visits the engine has performed, over all calls of run_iter
TotalVisits == SumOver(visits, DOMAIN visits)

\* C22: the runaway ceiling is global to the run of an engine: counted over
\* all invocations of run_iter, resumptions included, the engine performs
\* no more than GuardLimit state visits without having raised the runaway
\* error
C22_GlobalCeiling ==
    TotalVisits > GuardLimit => ran_away

----------------------------------------------------------------------------
(* The legacy if_goto *)

\* an if_goto has just been executed
IfGotoExecuted ==
    /\ AtAction("if_goto")
    /\ Len(log') = Len(log) + 1 /\ log'[Len(log')].ev = "if_goto"

\* C23: a legacy if_goto jumps to its target if and only if the string
\* value of its variable (the empty string when unbound) is equal, as a
\* string, to its literal: "1.0" does not match "1"
C23_IfGotoStringEquality ==
    [][IfGotoExecuted =>
         ((log'[Len(log')].b = 1) <=> (CtxGet(ctx, Act.left) = Act.right))]_vars

----------------------------------------------------------------------------
(* The current-state pointer and the session's "ended" flag *)

\* C24: the current-state pointer always names a state of the selected
\* flow, and so the "ended" flag of the session layer is false in every
\* response of step(), also after the engine has halted
C24_PointerInFlow ==
    /\ state_name \in StateNames
    /\ Responded => ~Ended

\* step() has responded after a halt, with no message and nothing awaited:
\* the flag rests on the pointer alone
C24_Witness ==
    /\ Responded /\ epc = "halted"
    /\ await_var = None /\ msgs = <<>>
    /\ ~Ended

----------------------------------------------------------------------------
(* Re-invocation after a halt *)

\* run_iter is running, invoked on an engine whose last run had halted
ReinvokedAfterHalt == invoked_in = "halted" /\ hpc = "running"

\* C25: halting is stable under re-invocation: run_iter invoked again on an
\* engine that has halted, as step() does for every later message, produces
\* no further output line, changes neither the current state nor the
\* context, and does not raise the runaway error
C25_HaltIsStable ==
    [][ReinvokedAfterHalt =>
          /\ out' = out
          /\ state_name' = state_name
          /\ ctx' = ctx
          /\ err' /= "RuntimeError"]_vars

----------------------------------------------------------------------------
(* The fallback state itself *)

\* C26: the repeat-visit rule never sends a state to itself: in the
\* fallback state, with no target from its actions or the classifier, the
\* run halts whatever the visit count
C26_NoSelfFallback ==
    (epc = "transition" /\ HasEv(IsFallbackEv)) => target /= state_name

----------------------------------------------------------------------------
(* Resuming a suspended visit in the session layer *)

\* step() is running on an engine whose last run was suspended at an ask:
\* the suspended visit is being resumed, and the answer step() was given
\* has not been consumed yet
ResumingBeforeAnswer ==
    /\ host = "web" /\ hpc = "running"
    /\ invoked_in = "suspended" /\ await_var /= None
    /\ guard = 1
    /\ inputs /= <<>> /\ called = 0

\* the step records an event of the given kind
Records(kind) ==
    /\ Len(log') = Len(log) + 1
    /\ log'[Len(log')].ev = kind

\* C27: when step() has reported await = {var: v}, the text given to the
\* next step() is stored in the context under exactly v, the set and save
\* actions in front of the suspended ask are not executed again on resume,
\* and a step() consumes at most one answer
C27_ResumeAtTheAsk ==
    [][/\ ResumingBeforeAnswer =>
            /\ ~Records("set") /\ ~Records("save")
            /\ Records("ask_call") => log'[Len(log')].a = await_var
            /\ ctx' /= ctx => ctx' = CtxSet(ctx, await_var, inputs[1])
       /\ (host = "web" /\ ctx' /= ctx /\ Records("ask_call")) => called = 0]_vars

====
